---------------------------- MODULE Spec2Model ----------------------------
(***************************************************************************)
(* FORGE task evaluation and sandboxed grading engine.                     *)
(*                                                                         *)
(*   evaluateFinal   src/src/lib/eval/static-eval.ts  (final evaluator)    *)
(*   evaluateRuntime src/unnamed/part_005             (runtime evaluator)  *)
(*   runInSandbox    src/src/lib/runtime/sandbox-runner.ts                 *)
(*   runTask         src/src/lib/exec.ts              (orchestrator)       *)
(*                                                                         *)
(* Sub-scores are real numbers in [0,1] in the source; here they are       *)
(* integers in units of 1/ScoreDen, so 0.5 is ScoreDen \div 2 and every    *)
(* fraction validCount/fileCount of a small bundle is exact.               *)
(***************************************************************************)
EXTENDS Integers, Sequences, FiniteSets, TLC

VARIABLES
    fin,      \* one direct call of an evaluator: its arguments and its result
    task,     \* the TaskSpec handed to runTask / runInSandbox
    pc,       \* position of runTask
    gen,      \* the two generation calls and the deadline timer
    rt,       \* locals of runTask
    sb,       \* one call of runInSandbox
    result,   \* what runTask's promise settled with
    benchmarkAccumulator  \* the module-level accumulator of exec.ts

vars == <<fin, task, pc, gen, rt, sb, result, benchmarkAccumulator>>

(***************************************************************************)
(* Bounds                                                                  *)
(***************************************************************************)
MaxAnnotations == 2      \* length of the annotation lists fed to evaluateFinal
MaxBrowserErrors == 1    \* browser errors captured during one page load
MaxTokens == 1           \* token usage reported by one generation call
MaxPathLen == 4          \* characters of a generated file path
MaxLintErrors == 1       \* level-A errors ESLint reports for one bundle
MaxTasks == 2            \* entries added to the benchmark accumulator

\* unit of the sub-scores: 1/ScoreDen (divisible by 1..6 and 8)
ScoreDen == 2 * 3 * 4 * 5

Difficulty == {"XS", "S", "M", "L", "XL"}

\* an absent optional value (null / undefined) is the empty sequence,
\* a present one a one-element sequence
Null == << >>
Some(x) == <<x>>

(***************************************************************************)
(* difficulty.ts: weights, in tenths                                       *)
(***************************************************************************)
DIFFICULTY_WEIGHTS ==
    [XS |-> 6, S |-> 8, M |-> 10, L |-> 12, XL |-> 14]

(***************************************************************************)
(* rules/registry.ts                                                       *)
(***************************************************************************)
RuleDef(r, l, s) == [ruleId |-> r, layer |-> l, severity |-> s]

FAILURE_REGISTRY ==
    [r \in {"runtime/crash", "runtime/console", "runtime/network",
            "runtime/timeout", "runtime/manifest-mismatch",
            "runtime/external-access", "parse/json", "parse/tree",
            "parse/artifacts", "connectivity/link", "connectivity/binding",
            "connectivity/schema", "connectivity/route", "lint/level-a",
            "lint/level-b", "lint/level-c", "model/no-output"} |->
        CASE r = "runtime/crash" -> RuleDef(r, "L5/BrowserRuntime", "critical")
          [] r = "runtime/console" -> RuleDef(r, "L5/BrowserRuntime", "error")
          [] r = "runtime/network" -> RuleDef(r, "L5/BrowserRuntime", "error")
          [] r = "runtime/timeout" -> RuleDef(r, "L5/BrowserRuntime", "error")
          [] r = "runtime/manifest-mismatch" -> RuleDef(r, "L5/BrowserRuntime", "error")
          [] r = "runtime/external-access" -> RuleDef(r, "L1/Warnings", "warning")
          [] r = "parse/json" -> RuleDef(r, "L4/Parse", "error")
          [] r = "parse/tree" -> RuleDef(r, "L4/Parse", "error")
          [] r = "parse/artifacts" -> RuleDef(r, "L4/Parse", "warning")
          [] r = "connectivity/link" -> RuleDef(r, "L3/StaticValidation", "error")
          [] r = "connectivity/binding" -> RuleDef(r, "L3/StaticValidation", "error")
          [] r = "connectivity/schema" -> RuleDef(r, "L3/StaticValidation", "error")
          [] r = "connectivity/route" -> RuleDef(r, "L3/StaticValidation", "error")
          [] r = "lint/level-a" -> RuleDef(r, "L2/CodeQuality", "error")
          [] r = "lint/level-b" -> RuleDef(r, "L2/CodeQuality", "warning")
          [] r = "lint/level-c" -> RuleDef(r, "L2/CodeQuality", "info")
          [] r = "model/no-output" -> RuleDef(r, "L1/Model", "error")]

getFailureDef(ruleId) == FAILURE_REGISTRY[ruleId]

\* makeFail / makeFailHelper: the registry definition with a message overlaid
makeFail(ruleId) == getFailureDef(ruleId)

\* { ...getFailureDef(ruleId), severity: 'warning' }
Downgraded(ruleId) == [getFailureDef(ruleId) EXCEPT !.severity = "warning"]

(***************************************************************************)
(* eval/static-eval.ts: final evaluator                                    *)
(***************************************************************************)
\* layer.startsWith('L5') ... over the layers of the registry
LayerTag(layer) ==
    CASE layer = "L5/BrowserRuntime" -> "L5"
      [] layer = "L4/Parse" -> "L4"
      [] layer = "L3/StaticValidation" -> "L3"
      [] layer = "L2/CodeQuality" -> "L2"
      [] OTHER -> "L1"

\* variant: the caps in reverse order
getScoreCap_Reversed(failureLayer) ==
    IF failureLayer = Null THEN 30
    ELSE CASE LayerTag(failureLayer[1]) = "L5" -> 100
           [] LayerTag(failureLayer[1]) = "L4" -> 85
           [] LayerTag(failureLayer[1]) = "L3" -> 70
           [] LayerTag(failureLayer[1]) = "L2" -> 50
           [] OTHER -> 30

getScoreCap_L5Uncapped(failureLayer) ==
    IF failureLayer = Null THEN 100
    ELSE CASE LayerTag(failureLayer[1]) = "L5" -> 100
           [] LayerTag(failureLayer[1]) = "L4" -> 50
           [] LayerTag(failureLayer[1]) = "L3" -> 70
           [] LayerTag(failureLayer[1]) = "L2" -> 85
           [] OTHER -> 100

getScoreCap(failureLayer) ==
    IF failureLayer = Null THEN 100
    ELSE CASE LayerTag(failureLayer[1]) = "L5" -> 30
           [] LayerTag(failureLayer[1]) = "L4" -> 50
           [] LayerTag(failureLayer[1]) = "L3" -> 70
           [] LayerTag(failureLayer[1]) = "L2" -> 85
           [] OTHER -> 100

\* variant: every layer ranks the same
getPriority_Flat(layer) == 1

getPriority(layer) ==
    CASE LayerTag(layer) = "L5" -> 5
      [] LayerTag(layer) = "L4" -> 4
      [] LayerTag(layer) = "L3" -> 3
      [] LayerTag(layer) = "L2" -> 2
      [] OTHER -> 1

IsFailureCandidate(a) == a.severity = "critical" \/ a.severity = "error"

failureCandidates(annotations) == SelectSeq(annotations, IsFailureCandidate)

\* head of the candidates after the stable sort by descending priority
worst(annotations) ==
    LET c == failureCandidates(annotations)
        i == CHOOSE k \in 1..Len(c) :
                /\ \A j \in 1..Len(c) : getPriority(c[j].layer) <= getPriority(c[k].layer)
                /\ \A j \in 1..(k - 1) : getPriority(c[j].layer) < getPriority(c[k].layer)
    IN  c[i]

failureLayerOf(annotations, parseStatus) ==
    IF Len(failureCandidates(annotations)) > 0
    THEN Some(worst(annotations).layer)
    ELSE IF parseStatus = Some("INVALID") THEN Some("L4/Parse") ELSE Null

\* the real number the expression for baseScore01 denotes, times 10 * ScoreDen
baseScoreNum(staticScore, runtimeScore) ==
    IF runtimeScore = Null
    THEN 6 * staticScore.completeness + 3 * staticScore.structure
           + 1 * staticScore.survivability
    ELSE 4 * staticScore.completeness + 2 * staticScore.structure
           + 1 * staticScore.survivability + 3 * runtimeScore[1] * ScoreDen

AnnotationPenalty(note) ==
    CASE LayerTag(note.layer) = "L5" -> 15
      [] LayerTag(note.layer) = "L4" -> 20
      [] LayerTag(note.layer) = "L3" -> 0
      [] LayerTag(note.layer) = "L2" ->
            (IF note.severity = "error" THEN 5
             ELSE IF note.severity = "warning" THEN 2 ELSE 0)
      [] OTHER -> 0

RECURSIVE penaltyOf(_)
penaltyOf(annotations) ==
    IF annotations = << >> THEN 0
    ELSE AnnotationPenalty(Head(annotations)) + penaltyOf(Tail(annotations))

\* Math.round of the real number n/d (d > 0): floor(n/d + 1/2)
MathRound(n, d) == (2 * n + d) \div (2 * d)

Max(a, b) == IF a >= b THEN a ELSE b
Min(a, b) == IF a <= b THEN a ELSE b

(***************************************************************************)
(* The numbers of the final evaluator are IEEE-754 doubles: every literal, *)
(* product and sum is rounded to 53 significant bits, ties to even.  A     *)
(* double is m * 2^e; the natural number m is a little-endian sequence of  *)
(* limbs below LimbBase, without leading zero limbs (0 is << >>).          *)
(***************************************************************************)
LimbBits == 13
LimbBase == 2 ^ LimbBits
Precision == 53

RECURSIVE bigNorm(_)
bigNorm(a) ==
    IF a # << >> /\ a[Len(a)] = 0 THEN bigNorm(SubSeq(a, 1, Len(a) - 1)) ELSE a

RECURSIVE bigOfInt(_)
bigOfInt(n) == IF n = 0 THEN << >> ELSE <<n % LimbBase>> \o bigOfInt(n \div LimbBase)

RECURSIVE bigToInt(_)
bigToInt(a) == IF a = << >> THEN 0 ELSE Head(a) + LimbBase * bigToInt(Tail(a))

RECURSIVE bigAddCarry(_, _, _)
bigAddCarry(a, b, carry) ==
    IF a = << >> /\ b = << >>
    THEN IF carry = 0 THEN << >> ELSE <<carry>>
    ELSE LET x == IF a = << >> THEN 0 ELSE Head(a)
             y == IF b = << >> THEN 0 ELSE Head(b)
             s == x + y + carry
         IN  <<s % LimbBase>>
               \o bigAddCarry(IF a = << >> THEN << >> ELSE Tail(a),
                              IF b = << >> THEN << >> ELSE Tail(b),
                              s \div LimbBase)

bigAdd(a, b) == bigAddCarry(a, b, 0)

\* a * k for 0 <= k < 2^17
RECURSIVE bigMulSmallCarry(_, _, _)
bigMulSmallCarry(a, k, carry) ==
    IF a = << >> /\ carry = 0 THEN << >>
    ELSE LET s == (IF a = << >> THEN 0 ELSE Head(a) * k) + carry
         IN  <<s % LimbBase>>
               \o bigMulSmallCarry(IF a = << >> THEN << >> ELSE Tail(a),
                                   k, s \div LimbBase)

bigMulSmall(a, k) == bigNorm(bigMulSmallCarry(a, k, 0))

RECURSIVE bigMul(_, _)
bigMul(a, b) ==
    IF b = << >> THEN << >>
    ELSE LET high == bigMul(a, Tail(b))
         IN  bigAdd(bigMulSmall(a, Head(b)),
                    IF high = << >> THEN << >> ELSE <<0>> \o high)

\* quotient and remainder of a by k, 0 < k < 2^17
RECURSIVE bigDivMod(_, _)
bigDivMod(a, k) ==
    IF a = << >> THEN [q |-> << >>, r |-> 0]
    ELSE LET high == bigDivMod(Tail(a), k)
             cur  == high.r * LimbBase + Head(a)
         IN  [q |-> <<cur \div k>> \o high.q, r |-> cur % k]

RECURSIVE bitLength(_)
bitLength(n) == IF n = 0 THEN 0 ELSE 1 + bitLength(n \div 2)

bigBitLength(a) ==
    IF a = << >> THEN 0 ELSE LimbBits * (Len(a) - 1) + bitLength(a[Len(a)])

bigShl(a, n) ==
    IF a = << >> THEN << >>
    ELSE [i \in 1..(n \div LimbBits) |-> 0] \o bigMulSmall(a, 2 ^ (n % LimbBits))

bigShr(a, n) ==
    bigNorm(bigDivMod(SubSeq(a, (n \div LimbBits) + 1, Len(a)), 2 ^ (n % LimbBits)).q)

\* bit i of a, bit 0 being the lowest
bigBit(a, i) ==
    IF (i \div LimbBits) + 1 > Len(a) THEN 0
    ELSE (a[(i \div LimbBits) + 1] \div (2 ^ (i % LimbBits))) % 2

\* the lowest n bits of a are all 0
bigLowBitsZero(a, n) ==
    /\ \A j \in 1..(n \div LimbBits) : j > Len(a) \/ a[j] = 0
    /\ \/ (n \div LimbBits) + 1 > Len(a)
       \/ a[(n \div LimbBits) + 1] % (2 ^ (n % LimbBits)) = 0

\* a >= b, for a and b without leading zero limbs
RECURSIVE bigGeq(_, _)
bigGeq(a, b) ==
    IF Len(a) # Len(b) THEN Len(a) > Len(b)
    ELSE IF a = << >> THEN TRUE
    ELSE IF a[Len(a)] # b[Len(b)] THEN a[Len(a)] > b[Len(b)]
    ELSE bigGeq(SubSeq(a, 1, Len(a) - 1), SubSeq(b, 1, Len(b) - 1))

\* a - b for a >= b
RECURSIVE bigSubBorrow(_, _, _)
bigSubBorrow(a, b, borrow) ==
    IF a = << >> THEN << >>
    ELSE LET d == Head(a) - (IF b = << >> THEN 0 ELSE Head(b)) - borrow
         IN  <<d % LimbBase>>
               \o bigSubBorrow(Tail(a), IF b = << >> THEN << >> ELSE Tail(b),
                               IF d < 0 THEN 1 ELSE 0)

bigSub(a, b) == bigNorm(bigSubBorrow(a, b, 0))

\* the first k quotient bits of n / d for n < 2 * d, the integer bit
\* first, and the remainder left, doubled at each step
RECURSIVE bigDivBits(_, _, _)
bigDivBits(n, d, k) ==
    IF k = 1
    THEN IF bigGeq(n, d) THEN [q |-> <<1>>, rem |-> bigMulSmall(bigSub(n, d), 2)]
         ELSE [q |-> << >>, rem |-> bigMulSmall(n, 2)]
    ELSE LET high == bigDivBits(n, d, k \div 2)
             low  == bigDivBits(high.rem, d, k - (k \div 2))
         IN  [q |-> bigAdd(bigShl(high.q, k - (k \div 2)), low.q), rem |-> low.rem]

DoubleZero == [m |-> << >>, e |-> 0]

\* the double nearest to n * 2^e, ties to even
roundToDouble(n, e) ==
    IF bigBitLength(n) <= Precision THEN [m |-> n, e |-> e]
    ELSE LET sh     == bigBitLength(n) - Precision
             q      == bigShr(n, sh)
             guard  == bigBit(n, sh - 1) = 1
             sticky == ~bigLowBitsZero(n, sh - 1)
             odd    == bigBit(q, 0) = 1
         IN  [m |-> IF guard /\ (sticky \/ odd) THEN bigAdd(q, <<1>>) ELSE q,
              e |-> e + sh]

\* the double a literal or a quotient num/den denotes (0 < den < 2^17): the
\* quotient to 70 fractional bits, with one more bit saying it is inexact
doubleOf(num, den) ==
    IF num = 0 THEN DoubleZero
    ELSE LET d == bigDivMod(bigShl(bigOfInt(num), 70), den)
         IN  roundToDouble(bigAdd(bigMulSmall(bigNorm(d.q), 2),
                                  IF d.r # 0 THEN <<1>> ELSE << >>),
                           0 - 71)

doubleMul(x, y) ==
    IF x.m = << >> \/ y.m = << >> THEN DoubleZero
    ELSE roundToDouble(bigMul(x.m, y.m), x.e + y.e)

doubleAdd(x, y) ==
    IF x.m = << >> THEN y
    ELSE IF y.m = << >> THEN x
    ELSE LET e == IF x.e <= y.e THEN x.e ELSE y.e
         IN  roundToDouble(bigAdd(bigShl(x.m, x.e - e), bigShl(y.m, y.e - e)), e)

\* x / y for y # 0: both mantissas are brought to the same bit length, the
\* quotient is taken to Precision + 3 bits, with one more bit saying it is
\* inexact
doubleDiv(x, y) ==
    IF x.m = << >> THEN DoubleZero
    ELSE LET sx == Max(0, bigBitLength(y.m) - bigBitLength(x.m))
             sy == Max(0, bigBitLength(x.m) - bigBitLength(y.m))
             d  == bigDivBits(bigShl(x.m, sx), bigShl(y.m, sy), Precision + 3)
         IN  roundToDouble(bigAdd(bigMulSmall(d.q, 2),
                                  IF d.rem # << >> THEN <<1>> ELSE << >>),
                           (x.e - sx) - (y.e - sy) - (Precision + 3))

\* Math.floor(x) and whether x - Math.floor(x) >= 0.5, for x >= 0
doubleFloor(x) ==
    IF x.e >= 0 THEN bigToInt(bigShl(x.m, x.e)) ELSE bigToInt(bigShr(x.m, 0 - x.e))

doubleHalfBit(x) == IF x.e >= 0 THEN 0 ELSE bigBit(x.m, (0 - x.e) - 1)

\* baseScore01 * 100 * weight, sub-scores given in units of 1/ScoreDen
floorAndHalf(x) == [floor |-> doubleFloor(x), half |-> doubleHalfBit(x)]

\* w1 * x1 + w2 * x2 + ..., evaluated left to right; terms is a sequence of
\* <<w, x>>, w in tenths and x in units of 1/ScoreDen
RECURSIVE sumOfProducts(_)
sumOfProducts(terms) ==
    LET last == terms[Len(terms)]
    IN  doubleAdd(IF Len(terms) = 1 THEN DoubleZero
                  ELSE sumOfProducts(SubSeq(terms, 1, Len(terms) - 1)),
                  doubleMul(doubleOf(last[1], 10), doubleOf(last[2], ScoreDen)))

\* baseScore01 * 100 * weight, sub-scores given in units of 1/ScoreDen
weightedScoreOf(difficulty, completeness, structure, survivability, runtimeScore) ==
    floorAndHalf(
        doubleMul(doubleMul(sumOfProducts(
                                IF runtimeScore = Null
                                THEN <<<<6, completeness>>, <<3, structure>>,
                                       <<1, survivability>>>>
                                ELSE <<<<4, completeness>>, <<2, structure>>,
                                       <<1, survivability>>,
                                       <<3, runtimeScore[1] * ScoreDen>>>>),
                            doubleOf(100, 1)),
                  doubleOf(DIFFICULTY_WEIGHTS[difficulty], 10)))

\* the sub-score values the specifications below take, and weightedScoreOf
\* tabulated over them
TabulatedScores == {0, ScoreDen \div 4, ScoreDen \div 2, 3 * (ScoreDen \div 4), ScoreDen}

weightedScoreTable ==
    [d \in Difficulty, c \in TabulatedScores, s \in TabulatedScores,
     v \in {0, ScoreDen}, r \in {Null, Some(0), Some(1)} |->
        weightedScoreOf(d, c, s, v, r)]

weightedScore(difficulty, staticScore, runtimeScore) ==
    weightedScoreTable[difficulty, staticScore.completeness,
                       staticScore.structure, staticScore.survivability,
                       runtimeScore]

\* Math.round(weightedScore - penalty).  The penalty is an integer: when it
\* is at most weightedScore the difference is exact, and otherwise both this
\* value and the rounded difference are <= 0.
roundPenalized(weighted, penalty) == weighted.floor + weighted.half - penalty

\* metadata = {} is [difficulty |-> Null, failureAnnotations |-> Null, parseStatus |-> Null]
EmptyMetadata == [difficulty |-> Null, failureAnnotations |-> Null, parseStatus |-> Null]

evaluateFinal(staticScore, runtimeScore, metadata) ==
    LET difficulty  == IF metadata.difficulty = Null THEN "M" ELSE metadata.difficulty[1]
        annotations == IF metadata.failureAnnotations = Null THEN << >>
                       ELSE metadata.failureAnnotations[1]
        failureLayer == failureLayerOf(annotations, metadata.parseStatus)
        weighted    == weightedScore(difficulty, staticScore, runtimeScore)
        cap         == getScoreCap(failureLayer)
        totalScore  == Max(0, Min(cap, roundPenalized(weighted, penaltyOf(annotations))))
    IN  [totalScore |-> totalScore,
         scoreBreakdown |-> [static |-> staticScore, runtime |-> runtimeScore],
         notes |-> IF failureLayer = Null
                   THEN <<"All validation checks passed">>
                   ELSE <<"Failure classified", "Score capped">>,
         failureLayer |-> failureLayer,
         failureAnnotations |-> annotations,
         infrastructureTimeout |-> FALSE]

(***************************************************************************)
(* eval/runtime-eval: evaluateRuntime                                      *)
(*                                                                         *)
(* A browser error is [type, url, message].  A url is [ext, query]: the    *)
(* extension of the requested file and whether a query string or fragment  *)
(* follows it; a message is the set of file extensions its text mentions.  *)
(* An external access is [scheme, path].                                   *)
(***************************************************************************)
FileNames == {"index.html", "index.js"}

Url(ext, query) == [ext |-> ext, query |-> query]

NoUrl == Url("", FALSE)

BrowserError(type, url, message) == [type |-> type, url |-> url, message |-> message]

\* what the page listeners of the sandbox push: the network messages are
\* the browser's error text or 'HTTP <status>', which name no file
RunnerErrorKinds ==
    {BrowserError("pageerror", NoUrl, {}),
     BrowserError("network", Url("js", FALSE), {}),
     BrowserError("network", Url("css", FALSE), {}),
     BrowserError("network", Url("js", TRUE), {}),
     BrowserError("console.error", NoUrl, {})}

\* and what a caller of evaluateRuntime can pass
BrowserErrorKinds ==
    RunnerErrorKinds
    \cup {BrowserError("other", NoUrl, {}),
          BrowserError("network", Url("css", FALSE), {"json"}),
          BrowserError("network", Url("css", FALSE), {"html"})}

\* err.url.endsWith('.' + ext)
endsWith(url, ext) == ~url.query /\ url.ext = ext

\* err.message.includes('.' + ext): '.json' contains '.js'
includes(message, ext) ==
    \E m \in message : m = ext \/ (ext = "js" /\ m = "json")

\* the condition of the "Critical Resource Check"
isCriticalResource(err) ==
    \/ endsWith(err.url, "js") \/ endsWith(err.url, "html")
    \/ includes(err.message, "js")
    \/ includes(err.message, "html")

AccessKinds ==
    {[scheme |-> "file", path |-> "index.html"],
     [scheme |-> "file", path |-> "index.js"],
     [scheme |-> "http", path |-> "index.js"],
     [scheme |-> "data", path |-> "index.js"]}

\* target.startsWith('file://') and some mounted file name occurs in it
checkIsInternal(access, internalFiles) ==
    access.scheme = "file" /\ access.path \in internalFiles

ManifestAnnotations(sandboxResult) ==
    IF sandboxResult.manifest = Null THEN << >>
    ELSE LET m == sandboxResult.manifest[1]
         IN  IF m.entry # "" /\ m.entry \notin m.filesMounted
             THEN <<makeFail("runtime/manifest-mismatch")>>
             ELSE << >>

AccessAnnotation(access, internalPaths) ==
    LET isFile     == access.scheme = "file"
        isInternal == checkIsInternal(access, internalPaths)
    IN  IF isFile /\ ~isInternal
        THEN <<makeFail("runtime/manifest-mismatch")>>
        ELSE IF ~isFile /\ ~isInternal /\ access.scheme # "about"
             THEN IF access.scheme # "data"
                  THEN <<makeFail("runtime/external-access")>>
                  ELSE << >>
             ELSE << >>

RECURSIVE AccessAnnotations(_, _)
AccessAnnotations(accesses, internalPaths) ==
    IF accesses = << >> THEN << >>
    ELSE AccessAnnotation(Head(accesses), internalPaths)
           \o AccessAnnotations(Tail(accesses), internalPaths)

\* errors pushed to sandboxResult.runtimeErrors
\* variant: a failed request is never fatal
IsFatalError_NetworkIgnored(err) ==
    \/ err.type = "pageerror"
    \/ err.type = "console.error"

IsFatalError(err) ==
    \/ err.type = "pageerror"
    \/ err.type = "network" /\ isCriticalResource(err)
    \/ err.type = "console.error"

ErrorAnnotation(err) ==
    CASE err.type = "pageerror" -> makeFail("runtime/crash")
      [] err.type = "network" ->
            (IF isCriticalResource(err) THEN makeFail("runtime/network")
             ELSE Downgraded("runtime/network"))
      [] err.type = "console.error" -> makeFail("runtime/console")
      [] OTHER -> Downgraded("runtime/console")

RECURSIVE ErrorAnnotations(_)
ErrorAnnotations(errs) ==
    IF errs = << >> THEN << >>
    ELSE <<ErrorAnnotation(Head(errs))>> \o ErrorAnnotations(Tail(errs))

OrEmpty(opt) == IF opt = Null THEN << >> ELSE opt[1]

evaluateRuntime(sandboxResult) ==
    LET internalPaths == IF sandboxResult.manifest = Null THEN {}
                         ELSE sandboxResult.manifest[1].filesMounted
        browserErrors == OrEmpty(sandboxResult.browserErrors)
        browserLogs   == OrEmpty(sandboxResult.browserLogs)
        runtimeErrors == SelectSeq(browserErrors, IsFatalError)
        nonFatal(e)   == ~IsFatalError(e)
        runtimeWarnings == Len(SelectSeq(browserErrors, nonFatal))
                             + Len(SelectSeq(browserLogs, LAMBDA l : l = "console.warn"))
        classified    == ManifestAnnotations(sandboxResult)
                           \o AccessAnnotations(OrEmpty(sandboxResult.externalAccess),
                                                internalPaths)
                           \o ErrorAnnotations(browserErrors)
    IN  IF ~sandboxResult.success
        THEN [score |-> 0,
              failureAnnotations |-> Append(classified, makeFail("runtime/crash")),
              runtimeErrors |-> runtimeErrors, runtimeWarnings |-> runtimeWarnings]
        ELSE IF Len(runtimeErrors) > 0
        THEN [score |-> 0, failureAnnotations |-> classified,
              runtimeErrors |-> runtimeErrors, runtimeWarnings |-> runtimeWarnings]
        ELSE [score |-> 1, failureAnnotations |-> classified,
              runtimeErrors |-> runtimeErrors, runtimeWarnings |-> runtimeWarnings]

(***************************************************************************)
(* runtime/sandbox-runner.ts: runInSandbox                                 *)
(*                                                                         *)
(* sb.pc        position inside the promise executor / the async function  *)
(* sb.files     artifacts.files (the paths)                                *)
(* sb.manifest  the manifest argument                                      *)
(* sb.dir       the scratch directory exists                               *)
(* sb.timers    cleanup timers scheduled and not yet fired                 *)
(* sb.promise   state of the returned promise                              *)
(* sb.resolves  calls of resolve()                                         *)
(* sb.result    the value the promise resolved with                        *)
(***************************************************************************)
RuntimeTypes == {"browser", "node", "undefined"}
EntryPoints == {"", "index.html", "index.js"}

Runtimes == [type : RuntimeTypes, entry : EntryPoints, buildCommand : BOOLEAN]

SandboxIdle ==
    [pc |-> "idle", files |-> {}, manifest |-> Null, dir |-> FALSE, timers |-> 0,
     promise |-> "none", resolves |-> 0, result |-> Null, logs |-> << >>]

SandboxCall(files, manifest) ==
    [SandboxIdle EXCEPT !.pc = "mkdir", !.files = files, !.manifest = manifest,
                        !.promise = "pending"]

SandboxResult(success, logs, manifest, browserErrors, browserLogs, externalAccess) ==
    [success |-> success, logs |-> logs, manifest |-> manifest,
     browserErrors |-> browserErrors, browserLogs |-> browserLogs,
     externalAccess |-> externalAccess]

\* the sandbox runner touches nothing of its caller
SandboxFrame == UNCHANGED <<fin, task, pc, gen, rt, result, benchmarkAccumulator>>

\* variant: the deletion is never scheduled
cleanup_Forgotten(s) == s

\* cleanup(): schedule the deletion, 300 ms later
cleanup(s) == [s EXCEPT !.timers = @ + 1]

\* resolve(value): only the first call settles the promise
resolve(s, value) ==
    [s EXCEPT !.resolves = @ + 1,
              !.promise = IF @ = "pending" THEN "resolved" ELSE @,
              !.result = IF s.promise = "pending" THEN Some(value) ELSE @,
              !.pc = "end"]

\* tmp.dirSync(): outside the try block, an exception rejects the promise
SbMkdir ==
    /\ sb.pc = "mkdir"
    /\ \/ sb' = [sb EXCEPT !.dir = TRUE, !.pc = "write"]
       \/ sb' = [sb EXCEPT !.promise = "rejected", !.pc = "end"]
    /\ SandboxFrame

\* the loop writing the files; an exception is caught by the outer catch
SbWriteFiles ==
    /\ sb.pc = "write"
    /\ \/ sb' = [sb EXCEPT !.pc = "build"]
       \/ LET logs == sb.logs \o <<"internal-error", "internal-error">>
          IN  sb' = resolve(cleanup(cleanup([sb EXCEPT !.logs = logs])),
                            SandboxResult(FALSE, logs, sb.manifest, Null, Null, Null))
    /\ SandboxFrame

\* runCommand: spawn; an exception thrown by spawn rejects runCommand's
\* promise, which nothing in the async function catches
SbSpawn(from, to) ==
    /\ sb.pc = from
    /\ \/ sb' = [sb EXCEPT !.pc = to]
       \/ sb' = [sb EXCEPT !.pc = "unhandled"]
    /\ SandboxFrame

SbBuildStart ==
    /\ sb.pc = "build"
    /\ IF task.runtime.buildCommand
       THEN sb' = [sb EXCEPT !.pc = "buildSpawn", !.logs = Append(@, "build")]
       ELSE sb' = [sb EXCEPT !.pc = "runtime"]
    /\ SandboxFrame

SbBuildSpawn == SbSpawn("buildSpawn", "buildWait")

\* the timer of runCommand fires first: log and kill
SbCommandTimeout(from, to) ==
    /\ sb.pc = from
    /\ sb' = [sb EXCEPT !.pc = to, !.logs = Append(@, "timeout")]
    /\ SandboxFrame

\* 'close' with an exit code, or 'error'.  proc.kill() sends SIGTERM: the
\* child ends by the signal (code null, reported as 1), or its handler exits
\* with a code of its own, or it goes on running and 'close' never comes
SignalHandlerExitCodes == {0, 1}

ExitCodes(killed) == IF killed THEN {1} \cup SignalHandlerExitCodes ELSE {0, 1}

SbBuildTimeout == SbCommandTimeout("buildWait", "buildKilled")

SbBuildClose ==
    /\ sb.pc \in {"buildWait", "buildKilled"}
    /\ \E code \in ExitCodes(sb.pc = "buildKilled") :
         IF code # 0
         THEN sb' = resolve(cleanup(sb),
                            SandboxResult(FALSE, sb.logs, Null,
                                          Some(<< >>), Some(<< >>), Null))
         ELSE sb' = [sb EXCEPT !.pc = "runtime"]
    /\ SandboxFrame

\* f.endsWith('.html') over FileNames and EntryPoints
EndsWithHtml(f) == f \in {"index.html"}

EndsWithJs(f) == f \in {"index.js", "app.js"}

htmlOf(entryPoint) == IF EndsWithHtml(entryPoint) THEN entryPoint ELSE "index.html"

SbRuntime ==
    /\ sb.pc = "runtime"
    /\ LET entryPoint == task.runtime.entry
           runtimeType == task.runtime.type
       IN  IF entryPoint = ""
           THEN sb' = resolve(cleanup(sb),
                              SandboxResult(TRUE, sb.logs, sb.manifest, Null, Null, Null))
           ELSE IF runtimeType = "browser"
           THEN IF htmlOf(entryPoint) \notin sb.files
                THEN LET logs == sb.logs \o <<"browser-runtime", "missing-entry">>
                     IN  sb' = resolve(cleanup([sb EXCEPT !.logs = logs]),
                                       SandboxResult(FALSE, logs, Null, Null, Null, Null))
                ELSE sb' = [sb EXCEPT !.pc = "browserWait",
                                      !.logs = Append(@, "browser-runtime")]
           ELSE IF runtimeType = "node"
           THEN sb' = [sb EXCEPT !.pc = "nodeSpawn",
                                 !.logs = @ \o <<"node-runtime", "cmd">>]
           ELSE LET logs == Append(sb.logs, "unknown-runtime")
                IN  sb' = resolve(cleanup([sb EXCEPT !.logs = logs]),
                                  SandboxResult(FALSE, logs, Null, Null, Null, Null))
    /\ SandboxFrame

SeqsUpTo(S, n) == UNION {[1..k -> S] : k \in 0..n}

\* what runInBrowser can return: the listeners' captures
BrowserRuns ==
    {[browserErrors |-> errs, browserLogs |-> << >>, externalAccess |-> << >>] :
        errs \in SeqsUpTo(RunnerErrorKinds, MaxBrowserErrors)}
    \cup {[browserErrors |-> << >>, browserLogs |-> <<"console.warn">>,
           externalAccess |-> access] : access \in SeqsUpTo(AccessKinds, 1)}

\* runInBrowser never throws: it returns what the listeners captured
SbBrowserDone ==
    /\ sb.pc = "browserWait"
    /\ \E run \in BrowserRuns :
         LET logs == Append(sb.logs, "browser-completed")
         IN  sb' = resolve(cleanup([sb EXCEPT !.logs = logs]),
                           SandboxResult(Len(run.browserErrors) = 0, logs, sb.manifest,
                                         Some(run.browserErrors), Some(run.browserLogs),
                                         Some(run.externalAccess)))
    /\ SandboxFrame

SbNodeSpawn == SbSpawn("nodeSpawn", "nodeWait")

SbNodeTimeout == SbCommandTimeout("nodeWait", "nodeKilled")

SbNodeClose ==
    /\ sb.pc \in {"nodeWait", "nodeKilled"}
    /\ \E code \in ExitCodes(sb.pc = "nodeKilled") :
         sb' = resolve(cleanup(sb),
                       SandboxResult(code = 0, sb.logs, sb.manifest, Null, Null, Null))
    /\ SandboxFrame

\* a cleanup timer fires: fs.rmSync(tempDir.name, {recursive, force})
SbCleanupTimer ==
    /\ sb.timers > 0
    /\ sb' = [sb EXCEPT !.timers = @ - 1, !.dir = FALSE]
    /\ SandboxFrame

SandboxStep ==
    \/ SbMkdir
    \/ SbWriteFiles
    \/ SbBuildStart
    \/ SbBuildSpawn
    \/ SbBuildTimeout
    \/ SbBuildClose
    \/ SbRuntime
    \/ SbBrowserDone
    \/ SbNodeSpawn
    \/ SbNodeTimeout
    \/ SbNodeClose
    \/ SbCleanupTimer

(***************************************************************************)
(* eval/static-eval.ts: evaluateStatic                                     *)
(*                                                                         *)
(* A bundle is described by the facts the evaluator reads off it: its file *)
(* names, the task's required files, whether the required files present    *)
(* are non-empty, how many files pass the per-extension check, what each   *)
(* connectivity sub-check returns (value in halves, annotations) and what  *)
(* the lint step meets.                                                    *)
(***************************************************************************)
Check(value, notes) == [value |-> value, notes |-> notes]

RECURSIVE SumValues(_)
SumValues(checks) ==
    IF checks = << >> THEN 0 ELSE Head(checks).value + SumValues(Tail(checks))

RECURSIVE Repeat(_, _)
Repeat(x, n) == IF n = 0 THEN << >> ELSE <<x>> \o Repeat(x, n - 1)

\* what the lint step meets: tmp.dirSync throws, writing a script into the
\* scratch directory throws, ESLint (its construction or lintFiles) throws,
\* or ESLint reports levelA level-A errors
LintKinds == {"ok", "eslintThrows", "writeThrows", "tmpDirThrows"}

Lint(kind, levelA) == [kind |-> kind, levelA |-> levelA]

\* evaluateLint: the number of level-A errors; a failure of ESLint is caught
\* inside and reported as no errors
evaluateLint(lint) == IF lint.kind = "eslintThrows" THEN 0 ELSE lint.levelA

\* variant: the four checks at every tier
enabledComponents_AllTiers(size, facts) ==
    <<facts.fileReference, facts.scriptBinding, facts.apiSchemaLinkage,
      facts.routeConsistency>>

\* variant: two checks at tiers 2 and 3, three at tier 4, four at tier 5
enabledComponents_LateGating(size, facts) ==
    <<facts.fileReference>>
      \o (IF size \in {"S", "M", "L", "XL"} THEN <<facts.scriptBinding>> ELSE << >>)
      \o (IF size \in {"L", "XL"} THEN <<facts.apiSchemaLinkage>> ELSE << >>)
      \o (IF size \in {"XL"} THEN <<facts.routeConsistency>> ELSE << >>)

enabledComponents(size, facts) ==
    <<facts.fileReference>>
      \o (IF size \in {"S", "M", "L", "XL"} THEN <<facts.scriptBinding>> ELSE << >>)
      \o (IF size \in {"M", "L", "XL"} THEN <<facts.apiSchemaLinkage>> ELSE << >>)
      \o (IF size \in {"L", "XL"} THEN <<facts.routeConsistency>> ELSE << >>)

\* tmp.dirSync is called outside the try block of the lint step
evaluateStaticThrows(facts) ==
    /\ {f \in facts.files : EndsWithJs(f)} # {}
    /\ facts.lint.kind = "tmpDirThrows"

\* the breakdown evaluateStatic resolves with, when it does not throw
evaluateStatic(size, facts) ==
    LET fileCount    == Cardinality(facts.files)
        allRequiredPresent == facts.required \subseteq facts.files
        allNonEmpty  == allRequiredPresent /\ facts.requiredNonEmpty
        completeness == IF allRequiredPresent /\ allNonEmpty
                        THEN ScoreDen ELSE ScoreDen \div 2
        structure    == IF fileCount > 0
                        THEN (facts.validCount * ScoreDen) \div fileCount ELSE 0
        enabled      == enabledComponents(size, facts)
        connectivity == (SumValues(enabled) * ScoreDen) \div (2 * Len(enabled))
        survivability ==
            IF /\ completeness = ScoreDen
               /\ 2 * structure >= ScoreDen
               /\ 2 * connectivity >= ScoreDen
            THEN ScoreDen ELSE 0
        jsFiles      == {f \in facts.files : EndsWithJs(f)}
        \* a failed write is caught by the lint step's own catch
        lintA        == IF jsFiles = {} \/ facts.lint.kind = "writeThrows" THEN 0
                        ELSE evaluateLint(facts.lint)
    IN  [completeness |-> completeness,
         structure |-> structure,
         survivability |-> survivability,
         connectivity |-> connectivity,
         lintErrorCount |-> lintA,
         failureAnnotations |->
            (IF completeness < ScoreDen
             THEN IF ~allRequiredPresent THEN <<makeFail("parse/tree")>>
                  ELSE <<makeFail("parse/artifacts")>>
             ELSE << >>)
            \o (IF structure < ScoreDen THEN <<makeFail("parse/json")>> ELSE << >>)
            \o facts.fileReference.notes \o facts.scriptBinding.notes
            \o facts.apiSchemaLinkage.notes \o facts.routeConsistency.notes
            \o Repeat(makeFail("lint/level-a"), lintA)]

\* the breakdowns runTask builds itself
ZeroStaticScore ==
    [completeness |-> 0, structure |-> 0, survivability |-> 0, connectivity |-> 0,
     lintErrorCount |-> 0, failureAnnotations |-> << >>]

InvalidStaticScore ==
    [completeness |-> ScoreDen \div 2, structure |-> 0, survivability |-> 0,
     connectivity |-> 0, lintErrorCount |-> 0, failureAnnotations |-> << >>]

(***************************************************************************)
(* Bundles that pass the parsing gate, as facts.  The connectivity         *)
(* sub-checks return what evaluateFileReference, evaluateScriptBinding,    *)
(* evaluateApiSchemaLinkage and evaluateRouteConsistency can return for    *)
(* the bundle's files.                                                     *)
(***************************************************************************)
HasHtml(files) == \E f \in files : EndsWithHtml(f)
HasJs(files) == \E f \in files : EndsWithJs(f)

\* evaluateFileReference.  targets: the required files that are not markup;
\* mentioned: the targets whose path occurs in the joined markup;
\* genericFallback: the markup holds '<script', '<link', 'href=' or 'src='
evaluateFileReference(hasHtml, targets, mentioned, genericFallback) ==
    IF ~hasHtml THEN Check(0, <<makeFail("connectivity/link")>>)
    ELSE IF targets = {} THEN Check(2, << >>)
    ELSE IF Cardinality(mentioned) = Cardinality(targets) THEN Check(2, << >>)
    ELSE LET score == IF Cardinality(mentioned) > 0 THEN 1 ELSE 0
         IN  IF score = 0 /\ genericFallback
             THEN Check(1, <<Downgraded("connectivity/link")>>)
             ELSE Check(score, <<makeFail("connectivity/link")>>)

\* what the markup of a bundle mentions, per profile
mentionedOf(profile, targets) ==
    CASE profile = "linked" -> targets
      [] profile = "some" -> targets \ {"app.js"}
      [] OTHER -> {}

\* variant: no vacuous pass when no non-markup file is required
fileReferenceOf_NoVacuousPass(files, required, profile) ==
    IF ~HasHtml(files) THEN Check(0, <<makeFail("connectivity/link")>>)
    ELSE CASE profile = "linked" -> Check(2, << >>)
           [] profile = "partial" -> Check(1, <<Downgraded("connectivity/link")>>)
           [] OTHER -> Check(0, <<makeFail("connectivity/link")>>)

fileReferenceOf(files, required, profile) ==
    LET targets == {f \in required : ~EndsWithHtml(f)}
    IN  evaluateFileReference(HasHtml(files), targets, mentionedOf(profile, targets),
                              profile = "partial")

\* evaluateScriptBinding.  jsSelectors: the ids ("#x") and classes (".x") the
\* scripts select; htmlDeclared: the ids and classes the markup declares
evaluateScriptBinding(hasJs, hasHtml, jsSelectors, htmlDeclared) ==
    IF ~hasJs \/ ~hasHtml
    THEN Check(0, IF hasJs /\ ~hasHtml THEN <<makeFail("connectivity/binding")>>
                  ELSE << >>)
    ELSE IF jsSelectors = {} /\ htmlDeclared = {}
    THEN Check(0, <<Downgraded("connectivity/binding")>>)
    ELSE IF \E selector \in jsSelectors : selector \in htmlDeclared
    THEN Check(2, << >>)
    ELSE Check(1, <<Downgraded("connectivity/binding")>>)

selectorsOf(profile) ==
    CASE profile = "linked" -> {"#a"}
      [] profile = "some" -> {"#a", "#b"}
      [] profile = "partial" -> {"#a"}
      [] OTHER -> {}

declaredOf(profile) ==
    CASE profile \in {"linked", "some"} -> {"#a"}
      [] profile = "partial" -> {"#b"}
      [] OTHER -> {}

scriptBindingOf(files, profile) ==
    evaluateScriptBinding(HasJs(files), HasHtml(files), selectorsOf(profile),
                          declaredOf(profile))

Profiles == {"linked", "some", "partial", "broken"}

\* evaluateApiSchemaLinkage: no api.json => 1; a key referenced verbatim =>
\* 1; only case-insensitively => 0.5, warning; not at all => 0, error
ApiStates == {"absent", "exact", "fuzzy", "unreferenced"}

apiSchemaLinkageOf(api) ==
    CASE api \in {"absent", "exact"} -> Check(2, << >>)
      [] api = "fuzzy" -> Check(1, <<Downgraded("connectivity/schema")>>)
      [] OTHER -> Check(0, <<makeFail("connectivity/schema")>>)

\* files['routes.json']: absent, or a text that is blank (''), not JSON,
\* JSON for something that is no object with keys ("scalar": null, a
\* number, a string), or an object whose values are the sequence values
RouteFile(exists, kind, values) == [exists |-> exists, kind |-> kind, values |-> values]

NoRoutesFile == RouteFile(FALSE, "blank", << >>)

\* routeValues.every(r => typeof r === 'string' && r.trim().length > 0)
nonEmpty(values) == \A i \in 1..Len(values) : values[i] # " "

\* variant: duplicates go unnoticed
hasDuplicates_Never(values) == FALSE

\* new Set(routeValues).size < routeValues.length
hasDuplicates(values) == Cardinality({values[i] : i \in 1..Len(values)}) < Len(values)

\* issues: the conditions the annotation's message names
RouteCheck(value, notes, issues) == [value |-> value, notes |-> notes, issues |-> issues]

evaluateRouteConsistency(routesFile) ==
    IF ~routesFile.exists \/ routesFile.kind = "blank" THEN RouteCheck(0, << >>, {})
    ELSE IF routesFile.kind = "invalid"
    THEN RouteCheck(0, <<makeFail("parse/json")>>, {})
    ELSE IF routesFile.kind = "scalar" \/ Len(routesFile.values) = 0
    THEN RouteCheck(0, <<Downgraded("connectivity/route")>>, {})
    ELSE IF nonEmpty(routesFile.values) /\ ~hasDuplicates(routesFile.values)
    THEN RouteCheck(2, << >>, {})
    ELSE RouteCheck(1, <<Downgraded("connectivity/route")>>,
                    (IF ~nonEmpty(routesFile.values) THEN {"Empty entries"} ELSE {})
                      \cup (IF hasDuplicates(routesFile.values)
                            THEN {"Duplicate targets"} ELSE {}))

RouteStates == {"absent", "consistent", "duplicates", "empty", "invalid"}

routeFileOf(routes) ==
    CASE routes = "absent" -> NoRoutesFile
      [] routes = "consistent" -> RouteFile(TRUE, "object", <<"/a", "/b">>)
      [] routes = "duplicates" -> RouteFile(TRUE, "object", <<"/a", "/a">>)
      [] routes = "empty" -> RouteFile(TRUE, "object", << >>)
      [] OTHER -> RouteFile(TRUE, "invalid", << >>)

routeConsistencyOf(routes) ==
    LET checked == evaluateRouteConsistency(routeFileOf(routes))
    IN  Check(checked.value, checked.notes)

\* files: the markup and script files; invalid: how many of the bundle's
\* files fail the per-extension check
FactsOf(files, required, requiredNonEmpty, invalid, profile, api, routes, lint) ==
    LET all == files \cup (IF api = "absent" THEN {} ELSE {"api.json"})
                     \cup (IF routes = "absent" THEN {} ELSE {"routes.json"})
    IN  [files |-> all,
         required |-> required,
         requiredNonEmpty |-> requiredNonEmpty,
         validCount |-> Cardinality(all) - invalid,
         fileReference |-> fileReferenceOf(files, required, profile),
         scriptBinding |-> scriptBindingOf(files, profile),
         apiSchemaLinkage |-> apiSchemaLinkageOf(api),
         routeConsistency |-> routeConsistencyOf(routes),
         lint |-> lint]

BundleFiles == {{"index.html"}, {"index.html", "index.js"}, {"index.js"}}

\* the bundles runTask is run on
Bundles ==
    {FactsOf(files, files, TRUE, 0, profile, "absent", "absent", Lint("ok", 0)) :
        files \in BundleFiles, profile \in Profiles}
    \cup {FactsOf(files, files \cup {"app.js"}, TRUE, 0, profile, "absent", "absent",
                  Lint("ok", 0)) : files \in BundleFiles, profile \in {"linked", "some"}}
    \cup {FactsOf(files, files, FALSE, 0, "linked", "absent", "absent", Lint("ok", 0)) :
            files \in BundleFiles}
    \cup {FactsOf(files, files, TRUE, 1, "linked", "absent", "absent", Lint("ok", 0)) :
            files \in BundleFiles}
    \cup {FactsOf(files, files, TRUE, 0, "linked", "absent", "absent", Lint("ok", 1)) :
            files \in {f \in BundleFiles : HasJs(f)}}
    \cup {FactsOf({"index.html", "index.js"}, {"index.html", "index.js"}, TRUE, 0,
                  "linked", "absent", "absent", Lint("tmpDirThrows", 0))}

(***************************************************************************)
(* exec.ts: the benchmark accumulator.  weightedSum and totalWeight are    *)
(* doubles; a score is an integer, a weight one of DIFFICULTY_WEIGHTS.     *)
(* esg is Null or Some([evalTokens, eciIndex]).                            *)
(***************************************************************************)
EmptyAccumulator ==
    [weightedSum |-> DoubleZero, totalWeight |-> DoubleZero, evalTokens |-> 0,
     eciTotal |-> 0, perTask |-> << >>, esgBreakdown |-> << >>]

addToBenchmark(acc, taskId, size, score, esg) ==
    LET weight == doubleOf(DIFFICULTY_WEIGHTS[size], 10)
    IN  [acc EXCEPT
            !.weightedSum = doubleAdd(@, doubleMul(doubleOf(score, 1), weight)),
            !.totalWeight = doubleAdd(@, weight),
            !.perTask = Append(@, [taskId |-> taskId, size |-> size,
                                   score |-> score, weight |-> weight]),
            !.evalTokens = IF esg = Null THEN @ ELSE @ + esg[1].evalTokens,
            !.eciTotal = IF esg = Null THEN @ ELSE @ + esg[1].eciIndex,
            !.esgBreakdown =
                IF esg = Null THEN @
                ELSE Append(@, [taskId |-> taskId, size |-> size,
                                evalTokens |-> esg[1].evalTokens,
                                eciIndex |-> esg[1].eciIndex])]

resetBenchmark == EmptyAccumulator

mathRound(x) == floorAndHalf(x).floor + floorAndHalf(x).half

getBenchmarkScore(acc) ==
    IF acc.totalWeight = DoubleZero THEN 0
    ELSE mathRound(doubleDiv(acc.weightedSum, acc.totalWeight))

\* taskSpec.id of the task runTask is given
TaskId == "task"

\* variant: the accumulator is updated on timed-out returns too
updateBenchmark_AlsoOnTimeout(acc, returned) ==
    addToBenchmark(acc, TaskId, task.size, returned.finalResult.totalScore, Null)

\* the block "Update benchmark accumulator (Skip if Timeout)"
\* of each return of runTask; returned is the value about to be returned and
\* options.parameterScale is undefined
updateBenchmark(acc, returned) ==
    IF ~returned.infrastructureTimeout
    THEN addToBenchmark(acc, TaskId, task.size, returned.finalResult.totalScore, Null)
    ELSE acc

(***************************************************************************)
(* exec.ts: runTask                                                        *)
(*                                                                         *)
(* gen.tree, gen.files  the generation call of each phase:                 *)
(*                      "idle", "inflight", "resolved" or "rejected"       *)
(* gen.timer            the deadline timer of callWithTimeout              *)
(* gen.discarded        outputs of calls that settled after losing a race  *)
(* rt.callResult        what callWithTimeout returned for the phase        *)
(* rt.ran               the stages the invocation has entered              *)
(***************************************************************************)
isXL_AlsoL(size) == size \in {"L", "XL"}

isXL(size) == size = "XL"

needsRuntime(size) == size \in {"M", "L", "XL"}

\* what a generation call can resolve with
GenOutputs ==
    [tree : BOOLEAN, artifacts : BOOLEAN, usage : {Null, Some(MaxTokens)}]

NoCallResult == [result |-> Null, timeout |-> FALSE]

GenIdle == [tree |-> "idle", files |-> "idle", timer |-> "off", discarded |-> << >>]

RtInit ==
    [callResult |-> NoCallResult, taskEvalTokens |-> 0,
     infrastructureTimeout |-> FALSE, tree |-> FALSE, artifactsSpec |-> FALSE,
     artifactStatus |-> "VALID", facts |-> Null, sandboxManifest |-> Null,
     staticScore |-> Null, runtimeScore |-> Null, sandboxMeta |-> Null,
     ran |-> {}]

Pending == [status |-> "pending", value |-> Null]
Rejected == [status |-> "rejected", value |-> Null]
Returned(v) == [status |-> "returned", value |-> Some(v)]

\* callWithTimeout, up to the await
CallStart(phase, waitPc, donePc) ==
    /\ pc = phase
    /\ IF ~isXL(task.size)
       THEN /\ gen' = [gen EXCEPT ![phase] = "inflight"]
            /\ pc' = waitPc
            /\ rt' = rt
       ELSE \/ \* remaining <= 0: the call is never made
               /\ rt' = [rt EXCEPT !.callResult = [result |-> Null, timeout |-> TRUE]]
               /\ pc' = donePc
               /\ gen' = gen
            \/ /\ gen' = [gen EXCEPT ![phase] = "inflight", !.timer = "armed"]
               /\ pc' = waitPc
               /\ rt' = rt
    /\ UNCHANGED <<fin, task, sb, result, benchmarkAccumulator>>

\* the awaited call resolves: it wins the race (or there is no race)
CallResolves(phase, waitPc, donePc) ==
    /\ pc = waitPc
    /\ gen[phase] = "inflight"
    /\ \E out \in GenOutputs :
         rt' = [rt EXCEPT !.callResult = [result |-> Some(out), timeout |-> FALSE]]
    /\ gen' = [gen EXCEPT ![phase] = "resolved",
                          !.timer = IF @ = "armed" THEN "cleared" ELSE @]
    /\ pc' = donePc
    /\ UNCHANGED <<fin, task, sb, result, benchmarkAccumulator>>

\* the awaited call throws or rejects: nothing in runTask catches it
CallRejects(phase, waitPc) ==
    /\ pc = waitPc
    /\ gen[phase] = "inflight"
    /\ gen' = [gen EXCEPT ![phase] = "rejected"]
    /\ result' = Rejected
    /\ pc' = "done"
    /\ UNCHANGED <<fin, task, sb, rt, benchmarkAccumulator>>

\* the deadline timer fires first
DeadlineFires(phase, waitPc, donePc) ==
    /\ pc = waitPc
    /\ gen.timer = "armed"
    /\ gen' = [gen EXCEPT !.timer = "fired"]
    /\ rt' = [rt EXCEPT !.callResult = [result |-> Null, timeout |-> TRUE]]
    /\ pc' = donePc
    /\ UNCHANGED <<fin, task, sb, result, benchmarkAccumulator>>

\* a call that lost the race settles later: nobody reads its value
CallSettlesLate(phase, waitPc) ==
    /\ pc # waitPc
    /\ gen[phase] = "inflight"
    /\ \/ \E out \in GenOutputs :
            gen' = [gen EXCEPT ![phase] = "resolved", !.discarded = Append(@, out)]
       \/ gen' = [gen EXCEPT ![phase] = "rejected"]
    /\ UNCHANGED <<fin, task, pc, rt, sb, result, benchmarkAccumulator>>

usageOf(callResult) ==
    IF callResult.result # Null /\ callResult.result[1].usage # Null
    THEN callResult.result[1].usage[1] ELSE 0

\* runtimeScore of the two early returns
earlyRuntimeScore_One(runtime) ==
    IF runtime.entry # "" \/ runtime.buildCommand THEN Some(1) ELSE Null

earlyRuntimeScore(runtime) ==
    IF runtime.entry # "" \/ runtime.buildCommand THEN Some(0) ELSE Null

\* the result object of the two early returns
earlyReturn(tokens, infrastructureTimeout, tree) ==
    LET runtimeScore == earlyRuntimeScore(task.runtime)
        finalResult  == evaluateFinal(ZeroStaticScore, runtimeScore, EmptyMetadata)
    IN  [tree |-> tree, combined |-> FALSE,
         staticScore |-> ZeroStaticScore, runtimeScore |-> runtimeScore,
         finalResult |->
            IF infrastructureTimeout
            THEN [finalResult EXCEPT !.infrastructureTimeout = TRUE,
                                     !.notes = Append(@, "Infrastructure Timeout Triggered")]
            ELSE finalResult,
         infrastructureTimeout |-> infrastructureTimeout,
         evalTokens |-> tokens]

\* if (!tree || infrastructureTimeout)
treePhaseFailed_OnlyTimeout(tree, infrastructureTimeout) == infrastructureTimeout

treePhaseFailed(tree, infrastructureTimeout) == ~tree \/ infrastructureTimeout

\* if (!artifactsSpec || infrastructureTimeout)
filesPhaseFailed(artifactsSpec, infrastructureTimeout) ==
    ~artifactsSpec \/ infrastructureTimeout

TreeCall == CallStart("tree", "treeWait", "treeDone")
TreeResolves == CallResolves("tree", "treeWait", "treeDone")
TreeRejects == CallRejects("tree", "treeWait")
TreeDeadline == DeadlineFires("tree", "treeWait", "treeDone")
TreeSettlesLate == CallSettlesLate("tree", "treeWait")

AfterTree ==
    /\ pc = "treeDone"
    /\ LET tokens == rt.taskEvalTokens + usageOf(rt.callResult)
           infra  == rt.callResult.timeout
           tree   == rt.callResult.result # Null /\ rt.callResult.result[1].tree
       IN  /\ rt' = [rt EXCEPT !.callResult = NoCallResult,
                               !.taskEvalTokens = tokens,
                               !.infrastructureTimeout = infra, !.tree = tree]
           /\ IF treePhaseFailed(tree, infra)
              THEN /\ result' = Returned(earlyReturn(tokens, infra, FALSE))
                   /\ benchmarkAccumulator' =
                         updateBenchmark(benchmarkAccumulator, result'.value[1])
                   /\ pc' = "done"
              ELSE /\ UNCHANGED <<result, benchmarkAccumulator>>
                   /\ pc' = "files"
    /\ UNCHANGED <<fin, task, gen, sb>>

FilesCall == CallStart("files", "filesWait", "filesDone")
FilesResolves == CallResolves("files", "filesWait", "filesDone")
FilesRejects == CallRejects("files", "filesWait")
FilesDeadline == DeadlineFires("files", "filesWait", "filesDone")
FilesSettlesLate == CallSettlesLate("files", "filesWait")

AfterFiles ==
    /\ pc = "filesDone"
    /\ LET tokens == rt.taskEvalTokens + usageOf(rt.callResult)
           infra  == rt.infrastructureTimeout \/ rt.callResult.timeout
           artifactsSpec == rt.callResult.result # Null
                              /\ rt.callResult.result[1].artifacts
       IN  /\ rt' = [rt EXCEPT !.callResult = NoCallResult,
                               !.taskEvalTokens = tokens,
                               !.infrastructureTimeout = infra,
                               !.artifactsSpec = artifactsSpec]
           /\ IF filesPhaseFailed(artifactsSpec, infra)
              THEN /\ result' = Returned(earlyReturn(tokens, infra, rt.tree))
                   /\ benchmarkAccumulator' =
                         updateBenchmark(benchmarkAccumulator, result'.value[1])
                   /\ pc' = "done"
              ELSE /\ UNCHANGED <<result, benchmarkAccumulator>>
                   /\ pc' = "parse"
    /\ UNCHANGED <<fin, task, gen, sb>>

\* the parsing gate, the artifacts and the sandbox manifest
Parse ==
    /\ pc = "parse"
    /\ \/ \E b \in Bundles :
            rt' = [rt EXCEPT !.artifactStatus = "VALID", !.facts = Some(b),
                             !.sandboxManifest =
                                Some([entry |-> task.runtime.entry,
                                      filesMounted |-> b.files]),
                             !.ran = @ \cup {"parse"}]
       \/ rt' = [rt EXCEPT !.artifactStatus = "INVALID", !.ran = @ \cup {"parse"}]
    /\ pc' = "static"
    /\ UNCHANGED <<fin, task, gen, sb, result, benchmarkAccumulator>>

StaticEval ==
    /\ pc = "static"
    /\ IF rt.artifactStatus = "VALID" /\ evaluateStaticThrows(rt.facts[1])
       THEN \* await evaluateStatic(...) throws
            /\ rt' = [rt EXCEPT !.ran = @ \cup {"static"}]
            /\ result' = Rejected
            /\ pc' = "done"
       ELSE /\ IF rt.artifactStatus = "VALID"
               THEN rt' = [rt EXCEPT !.staticScore =
                                        Some(evaluateStatic(task.size, rt.facts[1])),
                                     !.ran = @ \cup {"static"}]
               ELSE rt' = [rt EXCEPT !.staticScore = Some(InvalidStaticScore)]
            /\ result' = result
            /\ pc' = "runtime"
    /\ UNCHANGED <<fin, task, gen, sb, benchmarkAccumulator>>

\* artifacts.files: combined.artifacts.files when VALID, {} otherwise
artifactsFiles(artifactStatus, facts) ==
    IF artifactStatus = "VALID" THEN facts[1].files ELSE {}

\* variant: the runtime phase is decided by the tier alone
runtimeRuns_IgnoringParseGate(size, artifactStatus) == needsRuntime(size)

\* if (needsRuntime && artifactStatus === 'VALID')
runtimeRuns(size, artifactStatus) ==
    needsRuntime(size) /\ artifactStatus = "VALID"

RuntimePhase ==
    /\ pc = "runtime"
    /\ IF runtimeRuns(task.size, rt.artifactStatus)
       THEN /\ sb' = SandboxCall(artifactsFiles(rt.artifactStatus, rt.facts),
                                 rt.sandboxManifest)
            /\ rt' = [rt EXCEPT !.ran = @ \cup {"sandbox"}]
            /\ pc' = "sandboxWait"
       ELSE /\ sb' = sb
            /\ rt' = [rt EXCEPT !.runtimeScore = Null]
            /\ pc' = "final"
    /\ UNCHANGED <<fin, task, gen, result, benchmarkAccumulator>>

\* sandboxResultForMetadata: rebuilt without failureAnnotations when the
\* sandbox result carries browserErrors or browserLogs (arrays are truthy)
sandboxResultForMetadata(sandboxResult, ev) ==
    [browserErrors |-> sandboxResult.browserErrors,
     browserLogs |-> sandboxResult.browserLogs,
     runtimeErrors |-> ev.runtimeErrors,
     runtimeWarnings |-> ev.runtimeWarnings,
     failureAnnotations |->
        IF sandboxResult.browserErrors # Null \/ sandboxResult.browserLogs # Null
        THEN Null
        ELSE Some(ev.failureAnnotations)]

AfterSandbox ==
    /\ pc = "sandboxWait"
    /\ sb.promise = "resolved"
    /\ LET sandboxResult == sb.result[1]
           ev == evaluateRuntime(sandboxResult)
       IN  rt' = [rt EXCEPT !.runtimeScore = Some(ev.score),
                            !.sandboxMeta = Some(sandboxResultForMetadata(sandboxResult, ev)),
                            !.ran = @ \cup {"runtimeEval"}]
    /\ pc' = "final"
    /\ UNCHANGED <<fin, task, gen, sb, result, benchmarkAccumulator>>

\* await runInSandbox(...) throws when the promise rejects
SandboxRejects ==
    /\ pc = "sandboxWait"
    /\ sb.promise = "rejected"
    /\ result' = Rejected
    /\ pc' = "done"
    /\ UNCHANGED <<fin, task, gen, rt, sb, benchmarkAccumulator>>

mergedAnnotations(staticScore, sandboxMeta) ==
    staticScore.failureAnnotations
      \o (IF sandboxMeta = Null THEN << >>
          ELSE OrEmpty(sandboxMeta[1].failureAnnotations))

Final ==
    /\ pc = "final"
    /\ LET staticScore == rt.staticScore[1]
           merged == mergedAnnotations(staticScore, rt.sandboxMeta)
           finalResult ==
               evaluateFinal(staticScore, rt.runtimeScore,
                             [difficulty |-> Some(task.size),
                              failureAnnotations |-> Some(merged),
                              parseStatus |-> Null])
       IN  result' = Returned(
               [tree |-> rt.tree, combined |-> rt.artifactStatus = "VALID",
                staticScore |-> staticScore, runtimeScore |-> rt.runtimeScore,
                finalResult |->
                    [finalResult EXCEPT !.infrastructureTimeout =
                                            rt.infrastructureTimeout],
                infrastructureTimeout |-> rt.infrastructureTimeout,
                evalTokens |-> rt.taskEvalTokens])
    /\ benchmarkAccumulator' = updateBenchmark(benchmarkAccumulator, result'.value[1])
    /\ pc' = "done"
    /\ UNCHANGED <<fin, task, gen, rt, sb>>

FinIdle == [phase |-> "idle"]

Init ==
    /\ fin = FinIdle
    /\ task \in [size : Difficulty, runtime : Runtimes]
    /\ pc = "tree"
    /\ gen = GenIdle
    /\ rt = RtInit
    /\ sb = SandboxIdle
    /\ result = Pending
    /\ benchmarkAccumulator = EmptyAccumulator

Next ==
    \/ TreeCall \/ TreeResolves \/ TreeRejects \/ TreeDeadline \/ TreeSettlesLate
    \/ AfterTree
    \/ FilesCall \/ FilesResolves \/ FilesRejects \/ FilesDeadline \/ FilesSettlesLate
    \/ AfterFiles
    \/ Parse \/ StaticEval \/ RuntimePhase
    \/ SbMkdir \/ SbWriteFiles \/ SbBuildStart \/ SbBuildSpawn \/ SbBuildTimeout
    \/ SbBuildClose \/ SbRuntime \/ SbBrowserDone \/ SbNodeSpawn \/ SbNodeTimeout
    \/ SbNodeClose \/ SbCleanupTimer
    \/ AfterSandbox \/ SandboxRejects
    \/ Final

Spec == Init /\ [][Next]_vars

(***************************************************************************)
(* runInSandbox on its own, for any artifact map, runtime descriptor and   *)
(* manifest.                                                               *)
(***************************************************************************)
SandboxManifests(runtime, files) ==
    {Null,
     Some([entry |-> runtime.entry, filesMounted |-> files]),
     Some([entry |-> "index.js", filesMounted |-> {"index.html"}])}

SandboxInit ==
    /\ fin = FinIdle
    /\ task \in [size : {"M"}, runtime : Runtimes]
    /\ pc = "sandboxWait"
    /\ gen = GenIdle
    /\ rt = RtInit
    /\ \E files \in SUBSET FileNames :
         \E manifest \in SandboxManifests(task.runtime, files) :
            sb = SandboxCall(files, manifest)
    /\ result = Pending
    /\ benchmarkAccumulator = EmptyAccumulator

SandboxNext == SandboxStep

SandboxSpec == SandboxInit /\ [][SandboxNext]_vars

(***************************************************************************)
(* evaluateFinal on its own, for any tier, breakdown, runtime score and    *)
(* annotation list.                                                        *)
(***************************************************************************)
SubScores == {0, ScoreDen \div 2, ScoreDen}

\* validCount / fileCount of bundles of one, two or four files
StructureScores == {0, ScoreDen \div 2, 3 * (ScoreDen \div 4), ScoreDen}

\* the (layer, severity) pairs the evaluators emit
AnnotationPool ==
    {makeFail("runtime/crash"), makeFail("runtime/console"),
     Downgraded("runtime/network"), makeFail("runtime/external-access"),
     makeFail("parse/json"), makeFail("parse/artifacts"),
     makeFail("connectivity/link"), Downgraded("connectivity/binding"),
     makeFail("lint/level-a"), makeFail("lint/level-b"), makeFail("lint/level-c"),
     makeFail("model/no-output")}

EvaluateFinalCall ==
    /\ fin.phase = "idle"
    /\ \E difficulty \in Difficulty,
          c \in SubScores, s \in StructureScores, v \in {0, ScoreDen},
          runtimeScore \in {Null, Some(0), Some(1)},
          parseStatus \in {Null, Some("INVALID")},
          annotations \in SeqsUpTo(AnnotationPool, MaxAnnotations) :
         LET staticScore == [completeness |-> c, structure |-> s,
                             survivability |-> v, connectivity |-> ScoreDen,
                             failureAnnotations |-> << >>]
         IN  fin' = [phase |-> "done",
                     difficulty |-> difficulty,
                     runtimeScore |-> runtimeScore,
                     annotations |-> annotations,
                     parseStatus |-> parseStatus,
                     result |-> evaluateFinal(staticScore, runtimeScore,
                                    [difficulty |-> Some(difficulty),
                                     failureAnnotations |-> Some(annotations),
                                     parseStatus |-> parseStatus])]
    /\ UNCHANGED <<task, pc, gen, rt, sb, result, benchmarkAccumulator>>

FinalInit ==
    /\ fin = FinIdle
    /\ task = [size |-> "M",
               runtime |-> [type |-> "undefined", entry |-> "", buildCommand |-> FALSE]]
    /\ pc = "done"
    /\ gen = GenIdle
    /\ rt = RtInit
    /\ sb = SandboxIdle
    /\ result = Pending
    /\ benchmarkAccumulator = EmptyAccumulator

FinalNext == EvaluateFinalCall

FinalSpec == FinalInit /\ [][FinalNext]_vars


(***************************************************************************)
(* parsing layer: parseModelOutput, and the files runInSandbox writes for  *)
(* a bundle that passed it.                                                *)
(*                                                                         *)
(* A path is a sequence of characters.  A tree is absent (not an object)   *)
(* or a list of entries with a path; an artifacts object is absent or a    *)
(* map from path to content, of which only typeof content is read.         *)
(***************************************************************************)
PathChars == {" ", "/", ".", "a"}

Paths == SeqsUpTo(PathChars, MaxPathLen)

\* String.prototype.trim
RECURSIVE trimStart(_)
trimStart(p) ==
    IF p # << >> /\ Head(p) = " " THEN trimStart(Tail(p)) ELSE p

RECURSIVE trimEnd(_)
trimEnd(p) ==
    IF p # << >> /\ p[Len(p)] = " " THEN trimEnd(SubSeq(p, 1, Len(p) - 1)) ELSE p

trim(p) == trimEnd(trimStart(p))

\* p.split('/')
RECURSIVE splitPath(_)
splitPath(p) ==
    IF p = << >> THEN << << >> >>
    ELSE LET rest == splitPath(Tail(p))
         IN  IF Head(p) = "/" THEN << << >> >> \o rest
             ELSE << <<Head(p)>> \o Head(rest) >> \o Tail(rest)

isAbsolute(p) == p # << >> /\ Head(p) = "/"

hasParentTraversal(p) ==
    \E i \in 1..Len(splitPath(p)) : splitPath(p)[i] = <<".", ".">>

\* validateTreeSpec: every entry has a string path that is not blank
validateTreeSpec(tree) ==
    /\ tree # Null
    /\ \A i \in 1..Len(tree[1]) : Len(trim(tree[1][i])) # 0

\* validateArtifactsSpec: at least one key, no blank key, string contents
validateArtifactsSpec(artifacts) ==
    /\ artifacts # Null
    /\ DOMAIN artifacts[1] # {}
    /\ \A k \in DOMAIN artifacts[1] :
          /\ Len(trim(k)) # 0
          /\ artifacts[1][k] = "string"

parseModelOutput(tree, artifacts) ==
    IF ~validateTreeSpec(tree) THEN Null
    ELSE IF ~validateArtifactsSpec(artifacts) THEN Null
    ELSE Some([tree |-> tree[1], artifacts |-> artifacts[1]])

\* path.join(tempDir.name, filePath), relative to the scratch directory:
\* up = levels above it, segs = the segments below that point
RECURSIVE joinSegments(_, _)
joinSegments(segs, at) ==
    IF segs = << >> THEN at
    ELSE LET s == Head(segs)
             next == CASE s = << >> \/ s = <<".">> -> at
                       [] s = <<".", ".">> ->
                            (IF at.segs # << >>
                             THEN [at EXCEPT !.segs = SubSeq(@, 1, Len(@) - 1)]
                             ELSE [at EXCEPT !.up = @ + 1])
                       [] OTHER -> [at EXCEPT !.segs = Append(@, s)]
         IN  joinSegments(Tail(segs), next)

pathJoin(filePath) == joinSegments(splitPath(filePath), [up |-> 0, segs |-> << >>])

\* the joined path names a directory: fs.writeFileSync throws
namesDirectory(filePath) ==
    LET segs == splitPath(filePath)
    IN  segs[Len(segs)] \in {<< >>, <<".">>, <<".", ".">>}

underScratchDir(fullPath) == fullPath.up = 0 /\ fullPath.segs # << >>

\* the write loop of runInSandbox: the files written, and whether it threw
writeFiles(files) ==
    [written |-> {pathJoin(k) : k \in {f \in DOMAIN files : ~namesDirectory(f)}},
     threw |-> \E f \in DOMAIN files : namesDirectory(f)]

TreeSpecs == {Null} \cup {Some(<<p>>) : p \in Paths} \cup {Some(<< >>)}

ArtifactsSpecs ==
    {Null, Some(<< >>)}
    \cup {Some([k \in {p} |-> "string"]) : p \in Paths}
    \cup {Some([k \in {<<"a">>} |-> "number"])}

\* a bundle varies in its tree or in its content map
ParseInputs ==
    {[tree |-> t, artifacts |-> Some([k \in {<<"a">>} |-> "string"])] : t \in TreeSpecs}
    \cup {[tree |-> Some(<< <<"a">> >>), artifacts |-> a] : a \in ArtifactsSpecs}

ParseModelOutputCall ==
    /\ fin.phase = "idle"
    /\ \E in \in ParseInputs :
         fin' = [phase |-> "parsed", tree |-> in.tree, artifacts |-> in.artifacts,
                 parsed |-> parseModelOutput(in.tree, in.artifacts)]
    /\ UNCHANGED <<task, pc, gen, rt, sb, result, benchmarkAccumulator>>

\* exec.ts hands combined.artifacts.files to the sandbox runner
MaterializeFiles ==
    /\ fin.phase = "parsed"
    /\ fin.parsed # Null
    /\ fin' = [phase |-> "written", tree |-> fin.tree, artifacts |-> fin.artifacts,
               parsed |-> fin.parsed,
               disk |-> writeFiles(fin.parsed[1].artifacts)]
    /\ UNCHANGED <<task, pc, gen, rt, sb, result, benchmarkAccumulator>>

ParseNext == ParseModelOutputCall \/ MaterializeFiles

ParseSpec == FinalInit /\ [][ParseNext]_vars


(***************************************************************************)
(* evaluateStatic on its own, for any tier and bundle, evaluated twice.    *)
(***************************************************************************)
LintOutcomes ==
    {Lint("ok", n) : n \in 0..MaxLintErrors}
    \cup {Lint(kind, MaxLintErrors) : kind \in LintKinds \ {"ok"}}

StaticBundles ==
    {FactsOf(b.files,
             IF b.missing THEN b.files \cup {"app.js"} ELSE b.files,
             b.requiredNonEmpty, b.invalid, b.profile, b.api, b.routes, b.lint) :
        b \in [files : BundleFiles, missing : BOOLEAN, requiredNonEmpty : BOOLEAN,
               invalid : {0, 1}, profile : Profiles, api : ApiStates,
               routes : RouteStates, lint : LintOutcomes]}

EvaluateStaticCall ==
    /\ fin.phase = "idle"
    /\ \E size \in Difficulty, facts \in StaticBundles :
         fin' = [phase |-> "static", size |-> size, facts |-> facts,
                 threw |-> evaluateStaticThrows(facts),
                 result |-> IF evaluateStaticThrows(facts) THEN Null
                            ELSE Some(evaluateStatic(size, facts))]
    /\ UNCHANGED <<task, pc, gen, rt, sb, result, benchmarkAccumulator>>

\* the same artifacts and task evaluated once more
EvaluateStaticAgain ==
    /\ fin.phase = "static"
    /\ fin' = [phase |-> "staticAgain", size |-> fin.size, facts |-> fin.facts,
               threw |-> fin.threw, result |-> fin.result,
               again |-> IF evaluateStaticThrows(fin.facts) THEN Null
                         ELSE Some(evaluateStatic(fin.size, fin.facts))]
    /\ UNCHANGED <<task, pc, gen, rt, sb, result, benchmarkAccumulator>>

StaticNext == EvaluateStaticCall \/ EvaluateStaticAgain

StaticSpec == FinalInit /\ [][StaticNext]_vars


(***************************************************************************)
(* evaluateRuntime on its own, for any sandbox result.                     *)
(***************************************************************************)
Manifests ==
    {Null,
     Some([entry |-> "index.html", filesMounted |-> {"index.html"}]),
     Some([entry |-> "index.html", filesMounted |-> {"index.js"}])}

RuntimeInputs ==
    {SandboxResult(success, << >>, manifest, browserErrors, browserLogs, externalAccess) :
        success \in BOOLEAN, manifest \in Manifests,
        browserErrors \in {Null} \cup
            {Some(errs) : errs \in SeqsUpTo(BrowserErrorKinds, MaxBrowserErrors)},
        browserLogs \in {Null, Some(<<"console.warn">>)},
        externalAccess \in {Null} \cup
            {Some(access) : access \in SeqsUpTo(AccessKinds, 1)}}

EvaluateRuntimeCall ==
    /\ fin.phase = "idle"
    /\ \E sandboxResult \in RuntimeInputs :
         fin' = [phase |-> "runtime", sandboxResult |-> sandboxResult,
                 result |-> evaluateRuntime(sandboxResult)]
    /\ UNCHANGED <<task, pc, gen, rt, sb, result, benchmarkAccumulator>>

RuntimeNext == EvaluateRuntimeCall

RuntimeSpec == FinalInit /\ [][RuntimeNext]_vars


(***************************************************************************)
(* The filesystem guard preloaded into the node child (fs patches).        *)
(* Absolute paths are sequences of segments below "/".                     *)
(***************************************************************************)
\* process.cwd() of the child: the scratch directory, here "/a"
CWD == << <<"a">> >>

\* path.resolve(targetPath) in a process whose working directory is CWD
RECURSIVE resolveSegments(_, _)
resolveSegments(segs, at) ==
    IF segs = << >> THEN at
    ELSE LET s == Head(segs)
             next == CASE s = << >> \/ s = <<".">> -> at
                       [] s = <<".", ".">> ->
                            (IF at # << >> THEN SubSeq(at, 1, Len(at) - 1) ELSE at)
                       [] OTHER -> Append(at, s)
         IN  resolveSegments(Tail(segs), next)

pathResolve(targetPath) ==
    resolveSegments(splitPath(targetPath),
                    IF isAbsolute(targetPath) THEN << >> ELSE CWD)

\* the characters of an absolute path
RECURSIVE pathString(_)
pathString(segs) ==
    IF segs = << >> THEN << >>
    ELSE <<"/">> \o Head(segs) \o pathString(Tail(segs))

\* String.prototype.startsWith
startsWith(s, prefix) ==
    Len(s) >= Len(prefix) /\ SubSeq(s, 1, Len(prefix)) = prefix

isAllowed(targetPath) ==
    LET resolved == pathString(pathResolve(targetPath))
    IN  startsWith(resolved, pathString(CWD))

\* check(args): TRUE when it throws '[Sandbox] Access Denied'.  An argument
\* is [isString, path]: a string, or a Buffer or URL naming the same path
check(arg) == arg.isString /\ ~isAllowed(arg.path)

FsMethods ==
    {"readFileSync", "writeFileSync", "readdirSync", "mkdirSync",
     "readFile", "writeFile", "readdir", "mkdir"}

FsArguments == [isString : BOOLEAN, path : Paths]

\* one call of a patched fs method in the child
GuardedFsCall ==
    /\ fin.phase = "idle"
    /\ \E method \in FsMethods, arg \in FsArguments :
         fin' = [phase |-> "fs", method |-> method, arg |-> arg,
                 outcome |-> IF check(arg) THEN "Access Denied" ELSE "original",
                 touched |-> IF check(arg) THEN Null
                             ELSE Some(pathResolve(arg.path))]
    /\ UNCHANGED <<task, pc, gen, rt, sb, result, benchmarkAccumulator>>

GuardNext == GuardedFsCall

GuardSpec == FinalInit /\ [][GuardNext]_vars


(***************************************************************************)
(* The benchmark accumulator on its own: any sequence of addToBenchmark,   *)
(* resetBenchmark and getBenchmarkScore calls.  The calls are synchronous, *)
(* so those of concurrently running runTask invocations interleave as      *)
(* whole calls.                                                            *)
(***************************************************************************)
ScoreSamples == {0, 31, 100}

EsgSamples == {Null, Some([evalTokens |-> MaxTokens, eciIndex |-> 1])}

AddToBenchmarkCall ==
    /\ Len(benchmarkAccumulator.perTask) < MaxTasks
    /\ \E size \in Difficulty, score \in ScoreSamples, esg \in EsgSamples :
         benchmarkAccumulator' =
             addToBenchmark(benchmarkAccumulator,
                            Len(benchmarkAccumulator.perTask) + 1, size, score, esg)
    /\ fin' = [phase |-> "added"]
    /\ UNCHANGED <<task, pc, gen, rt, sb, result>>

ResetBenchmarkCall ==
    /\ benchmarkAccumulator' = resetBenchmark
    /\ fin' = [phase |-> "reset"]
    /\ UNCHANGED <<task, pc, gen, rt, sb, result>>

GetBenchmarkScoreCall ==
    /\ fin' = [phase |-> "score", score |-> getBenchmarkScore(benchmarkAccumulator)]
    /\ UNCHANGED <<task, pc, gen, rt, sb, result, benchmarkAccumulator>>

BenchmarkNext == AddToBenchmarkCall \/ ResetBenchmarkCall \/ GetBenchmarkScoreCall

BenchmarkSpec == FinalInit /\ [][BenchmarkNext]_vars


(***************************************************************************)
(* rules/registry.ts: getFailureDef on its own, for any string id.         *)
(* FAILURE_REGISTRY is an object literal, so FAILURE_REGISTRY[ruleId]      *)
(* also finds the members every object inherits from Object.prototype.     *)
(***************************************************************************)
ObjectPrototypeKeys == {"constructor", "toString", "__proto__"}

LookupIds ==
    DOMAIN FAILURE_REGISTRY \cup ObjectPrototypeKeys \cup {"unknown/rule", ""}

\* FAILURE_REGISTRY[ruleId]: own entry, inherited member, or undefined
registryLookup(ruleId) ==
    IF ruleId \in DOMAIN FAILURE_REGISTRY THEN Some(FAILURE_REGISTRY[ruleId])
    ELSE IF ruleId \in ObjectPrototypeKeys THEN Some([inherited |-> ruleId])
    ELSE Null

\* if (!def) throw new Error(...); return def;
getFailureDefOutcome(ruleId) ==
    LET def == registryLookup(ruleId)
    IN  IF def = Null THEN [threw |-> TRUE, def |-> Null]
        ELSE [threw |-> FALSE, def |-> def]

GetFailureDefCall ==
    /\ fin.phase = "idle"
    /\ \E ruleId \in LookupIds :
         fin' = [phase |-> "looked", ruleId |-> ruleId,
                 first |-> getFailureDefOutcome(ruleId)]
    /\ UNCHANGED <<task, pc, gen, rt, sb, result, benchmarkAccumulator>>

\* an evaluation between two lookups: its annotations are spread copies
EvaluationBetweenLookups ==
    /\ fin.phase = "looked"
    /\ \E sandboxResult \in RuntimeInputs :
         fin' = [phase |-> "evaluated", ruleId |-> fin.ruleId, first |-> fin.first,
                 annotations |-> evaluateRuntime(sandboxResult).failureAnnotations]
    /\ UNCHANGED <<task, pc, gen, rt, sb, result, benchmarkAccumulator>>

GetFailureDefAgain ==
    /\ fin.phase = "evaluated"
    /\ fin' = [phase |-> "lookedAgain", ruleId |-> fin.ruleId, first |-> fin.first,
               annotations |-> fin.annotations,
               again |-> getFailureDefOutcome(fin.ruleId)]
    /\ UNCHANGED <<task, pc, gen, rt, sb, result, benchmarkAccumulator>>

RegistryNext == GetFailureDefCall \/ EvaluationBetweenLookups \/ GetFailureDefAgain

RegistrySpec == FinalInit /\ [][RegistryNext]_vars


(***************************************************************************)
(* The connectivity sub-evaluators on their own, for any extracted         *)
(* selectors, mentioned targets and routes file.                           *)
(***************************************************************************)
MaxRoutes == 2

Selectors == {"#a", "#b", ".c"}

TargetFiles == {"index.js", "app.js"}

RouteValues == {"/a", "/b", " "}

RouteFiles ==
    {NoRoutesFile}
    \cup {RouteFile(TRUE, kind, << >>) : kind \in {"blank", "invalid", "scalar"}}
    \cup {RouteFile(TRUE, "object", values) : values \in SeqsUpTo(RouteValues, MaxRoutes)}

EvaluateScriptBindingCall ==
    /\ fin.phase = "idle"
    /\ \E hasJs \in BOOLEAN, hasHtml \in BOOLEAN,
          jsSelectors \in SUBSET Selectors, htmlDeclared \in SUBSET Selectors :
         fin' = [phase |-> "binding", hasJs |-> hasJs, hasHtml |-> hasHtml,
                 jsSelectors |-> jsSelectors, htmlDeclared |-> htmlDeclared,
                 result |-> evaluateScriptBinding(hasJs, hasHtml, jsSelectors,
                                                  htmlDeclared)]
    /\ UNCHANGED <<task, pc, gen, rt, sb, result, benchmarkAccumulator>>

EvaluateFileReferenceCall ==
    /\ fin.phase = "idle"
    /\ \E hasHtml \in BOOLEAN, targets \in SUBSET TargetFiles,
          genericFallback \in BOOLEAN :
         \E mentioned \in SUBSET targets :
            fin' = [phase |-> "reference", hasHtml |-> hasHtml, targets |-> targets,
                    mentioned |-> mentioned, genericFallback |-> genericFallback,
                    result |-> evaluateFileReference(hasHtml, targets, mentioned,
                                                     genericFallback)]
    /\ UNCHANGED <<task, pc, gen, rt, sb, result, benchmarkAccumulator>>

EvaluateRouteConsistencyCall ==
    /\ fin.phase = "idle"
    /\ \E routesFile \in RouteFiles :
         fin' = [phase |-> "route", routesFile |-> routesFile,
                 result |-> evaluateRouteConsistency(routesFile)]
    /\ UNCHANGED <<task, pc, gen, rt, sb, result, benchmarkAccumulator>>

ConnectivityNext ==
    \/ EvaluateScriptBindingCall
    \/ EvaluateFileReferenceCall
    \/ EvaluateRouteConsistencyCall

ConnectivitySpec == FinalInit /\ [][ConnectivityNext]_vars

(***************************************************************************)
(* Properties                                                              *)
(***************************************************************************)
ReturnedValue == result.value[1]

HasManifestMismatch(annotations) ==
    \E i \in 1..Len(annotations) :
        /\ annotations[i].ruleId = "runtime/manifest-mismatch"
        /\ LayerTag(annotations[i].layer) = "L5"

\* C1: evaluateFinal returns an integer totalScore with
\* 0 <= totalScore <= cap(failureLayer), cap being 30 for L5, 50 for L4,
\* 70 for L3, 85 for L2 and 100 without a failure layer, and the cap never
\* decreases as the dominant layer gets less severe.
C1_ScoreWithinCap ==
    fin.phase = "done" =>
        LET total == fin.result.totalScore
            layer == fin.result.failureLayer
        IN  /\ total \in 0..100
            /\ layer # Null /\ LayerTag(layer[1]) = "L5" => total <= 30
            /\ layer # Null /\ LayerTag(layer[1]) = "L4" => total <= 50
            /\ layer # Null /\ LayerTag(layer[1]) = "L3" => total <= 70
            /\ layer # Null /\ LayerTag(layer[1]) = "L2" => total <= 85
            /\ getScoreCap(Some("L5/BrowserRuntime")) <= getScoreCap(Some("L4/Parse"))
            /\ getScoreCap(Some("L4/Parse")) <= getScoreCap(Some("L3/StaticValidation"))
            /\ getScoreCap(Some("L3/StaticValidation")) <= getScoreCap(Some("L2/CodeQuality"))
            /\ getScoreCap(Some("L2/CodeQuality")) <= getScoreCap(Null)

\* an L5 evaluation whose uncapped score is above the cap: the cap decides
C1_Witness ==
    /\ fin.phase = "done"
    /\ fin.difficulty = "XL"
    /\ fin.runtimeScore = Some(1)
    /\ fin.result.failureLayer = Some("L5/BrowserRuntime")
    /\ fin.result.totalScore = 30

\* C2: when runTask grades an M, L or XL task with a browser runtime, the
\* page load raises exactly one uncaught page error and every static
\* sub-score is 1, the result has runtimeScore = 0, dominant layer L5 and
\* totalScore <= 30.
C2_PageErrorCapsScore ==
    (/\ result.status = "returned"
     /\ needsRuntime(task.size)
     /\ task.runtime.type = "browser"
     /\ "runtimeEval" \in rt.ran
     /\ sb.result[1].browserErrors = Some(<<BrowserError("pageerror", NoUrl, {})>>)
     /\ ReturnedValue.staticScore.completeness = ScoreDen
     /\ ReturnedValue.staticScore.structure = ScoreDen
     /\ ReturnedValue.staticScore.survivability = ScoreDen
     /\ ReturnedValue.staticScore.connectivity = ScoreDen)
    => /\ ReturnedValue.runtimeScore = Some(0)
       /\ ReturnedValue.finalResult.failureLayer # Null
       /\ LayerTag(ReturnedValue.finalResult.failureLayer[1]) = "L5"
       /\ ReturnedValue.finalResult.totalScore <= 30

\* C3: whenever the manifest's entry is not among its mounted files and the
\* runtime phase runs, the merged annotation list passed to evaluateFinal
\* and returned in finalResult.failureAnnotations contains a
\* runtime/manifest-mismatch annotation of layer L5.
C3_ManifestMismatchMerged ==
    (/\ result.status = "returned"
     /\ "sandbox" \in rt.ran
     /\ rt.sandboxManifest[1].entry # ""
     /\ rt.sandboxManifest[1].entry \notin rt.sandboxManifest[1].filesMounted)
    => HasManifestMismatch(ReturnedValue.finalResult.failureAnnotations)

\* C4: if the generation function throws or rejects during the tree phase
\* or the files phase, runTask does not reject: it returns a terminal
\* result with completeness 0.
C4_GenerationFaultContained ==
    (pc = "done" /\ (gen.tree = "rejected" \/ gen.files = "rejected"))
    => /\ result.status = "returned"
       /\ ReturnedValue.staticScore.completeness = 0

\* C5: whatever the build subprocess, the child process or the browser
\* does, the promise returned by runInSandbox never rejects and resolves,
\* exactly once, with a result carrying a boolean success flag and a log
\* list: once the call has stopped running, the promise is resolved.
C5_SandboxAlwaysResolves ==
    /\ sb.promise # "rejected"
    /\ sb.resolves <= 1
    /\ sb.pc \in {"end", "unhandled"} =>
          /\ sb.promise = "resolved"
          /\ sb.resolves = 1
          /\ sb.result[1].success \in BOOLEAN
          /\ sb.result[1].logs \in Seq(STRING)

\* C6: on every exit path deletion of the scratch directory is scheduled
\* before the result is delivered, so after every call the scratch
\* directory is eventually removed: once the call has stopped running, the
\* directory is gone or a deletion timer is pending.
C6_CleanupOnEveryPath ==
    /\ sb.promise = "resolved" /\ sb.dir => sb.timers > 0
    /\ sb.pc \in {"end", "unhandled"} /\ sb.dir => sb.timers > 0

C8_DeadlineRaceOnlyXL ==
    /\ task.size # "XL" =>
          /\ gen.timer = "off"
          /\ ~rt.infrastructureTimeout
          /\ gen.discarded = << >>
          /\ result.status = "returned" => ~ReturnedValue.infrastructureTimeout
    /\ gen.timer = "fired" =>
          /\ task.size = "XL"
          /\ pc \in {"treeDone", "filesDone", "done"}
          /\ pc = "done" =>
                /\ result.status = "returned"
                /\ ReturnedValue.infrastructureTimeout
                /\ ReturnedValue.finalResult.infrastructureTimeout
                /\ ~ReturnedValue.combined
                /\ ReturnedValue.staticScore = ZeroStaticScore
                /\ gen.files = "idle" =>
                      /\ ~ReturnedValue.tree
                      /\ ReturnedValue.evalTokens = 0
                /\ ReturnedValue.evalTokens <= MaxTokens

\* the tree call lost the race and later returned a tree and token usage
C8_Witness ==
    /\ task.size = "XL"
    /\ gen.timer = "fired"
    /\ pc = "done"
    /\ gen.files = "idle"
    /\ gen.discarded = <<[tree |-> TRUE, artifacts |-> FALSE, usage |-> Some(MaxTokens)]>>
    /\ ReturnedValue.infrastructureTimeout

\* C9: the files-phase request is issued only after the tree-phase request
\* has settled, never when the tree phase returned no tree or timed out,
\* and the two requests are never in flight at the same time.
C9_PhasesSequential ==
    /\ [](~(gen.tree = "inflight" /\ gen.files = "inflight"))
    /\ [][gen.files = "idle" /\ gen'.files # "idle" =>
            /\ gen.tree = "resolved"
            /\ gen.discarded = << >>
            /\ rt.tree
            /\ ~rt.infrastructureTimeout]_vars

C9_Witness ==
    /\ gen.tree = "resolved"
    /\ gen.files = "inflight"

\* C10: whenever the tree phase yields no tree, the files phase yields no
\* artifacts or a deadline wins, runTask skips parsing, static evaluation
\* and the sandbox and returns a result whose static sub-scores are all 0
\* and whose finalResult.totalScore is 0.
C10_DegradedResultIsZero ==
    (/\ pc = "done"
     /\ result.status # "rejected"
     /\ ~rt.tree \/ ~rt.artifactsSpec \/ rt.infrastructureTimeout)
    => /\ result.status = "returned"
       /\ rt.ran = {}
       /\ sb = SandboxIdle
       /\ ReturnedValue.staticScore.completeness = 0
       /\ ReturnedValue.staticScore.structure = 0
       /\ ReturnedValue.staticScore.survivability = 0
       /\ ReturnedValue.staticScore.connectivity = 0
       /\ ReturnedValue.finalResult.totalScore = 0

\* no artifacts came back for a task with a runtime entry
C10_Witness ==
    /\ pc = "done"
    /\ result.status = "returned"
    /\ rt.tree
    /\ ~rt.artifactsSpec
    /\ ~rt.infrastructureTimeout
    /\ ReturnedValue.runtimeScore = Some(0)
    /\ ReturnedValue.finalResult.totalScore = 0

\* C11: when the parsing gate rejects the generated bundle, the result
\* returned by runTask has totalScore 0 and does not report a clean pass: it
\* carries a failure layer or an explanatory note, and never the note
\* 'All validation checks passed'.
C11_RejectedBundleScoresZero ==
    (/\ result.status = "returned"
     /\ "parse" \in rt.ran
     /\ rt.artifactStatus = "INVALID")
    => LET finalResult == ReturnedValue.finalResult
       IN  /\ finalResult.totalScore = 0
           /\ finalResult.failureLayer # Null \/ finalResult.notes # << >>
           /\ \A i \in 1..Len(finalResult.notes) :
                 finalResult.notes[i] # "All validation checks passed"

\* C12: no bundle that passes the parsing gate (parseModelOutput returns
\* non-null) contains a tree path or content-map key that is empty, absolute
\* or contains a parent-traversal segment, so every file the sandbox runner
\* materializes lies under its scratch directory.
C12_AcceptedPathsAreConfined ==
    LET wellFormed(p) == p # << >> /\ ~isAbsolute(p) /\ ~hasParentTraversal(p)
    IN  /\ (fin.phase \in {"parsed", "written"} /\ fin.parsed # Null)
            => /\ \A i \in 1..Len(fin.parsed[1].tree) : wellFormed(fin.parsed[1].tree[i])
               /\ \A k \in DOMAIN fin.parsed[1].artifacts : wellFormed(k)
        /\ fin.phase = "written"
            => \A f \in fin.disk.written : underScratchDir(f)

\* C13: for every tier and every combination of sub-scores and other
\* annotations, an evaluation whose annotations include a browser crash (L5,
\* severity critical) never receives a higher totalScore from evaluateFinal
\* than a clean evaluation at the same tier (no failure annotations, all
\* sub-scores 1, runtime skipped or passed).
C13_CrashNeverOutscoresClean ==
    (/\ fin.phase = "done"
     /\ \E i \in 1..Len(fin.annotations) :
           /\ LayerTag(fin.annotations[i].layer) = "L5"
           /\ fin.annotations[i].severity = "critical")
    => \A cleanRuntime \in {Null, Some(1)} :
          fin.result.totalScore <=
             evaluateFinal([completeness |-> ScoreDen, structure |-> ScoreDen,
                            survivability |-> ScoreDen, connectivity |-> ScoreDen,
                            failureAnnotations |-> << >>],
                           cleanRuntime,
                           [difficulty |-> Some(fin.difficulty),
                            failureAnnotations |-> Some(<< >>),
                            parseStatus |-> Null]).totalScore

\* a crashed XL evaluation with perfect sub-scores: 140 - 15 is cut to 30
C13_Witness ==
    /\ fin.phase = "done"
    /\ fin.difficulty = "XL"
    /\ fin.annotations = <<makeFail("runtime/crash")>>
    /\ fin.result.scoreBreakdown.static.completeness = ScoreDen
    /\ fin.result.scoreBreakdown.static.structure = ScoreDen
    /\ fin.result.scoreBreakdown.static.survivability = ScoreDen
    /\ fin.runtimeScore = Some(1)
    /\ fin.result.totalScore = 30

\* C14: evaluateFinal's totalScore equals round(clamp(W*B - P, 0, cap)) with
\* B = 100*(0.6c + 0.3s + 0.1v) when the runtime score is null and
\* 100*(0.4c + 0.2s + 0.1v + 0.3r) otherwise, W = 0.6/0.8/1.0/1.2/1.4 for
\* XS/S/M/L/XL, and P = 15 per L5 annotation + 20 per L4 annotation + 5 per
\* L2 error + 2 per L2 warning, L3 and L1 annotations adding nothing.
C14_ScoreFormula ==
    fin.phase = "done" =>
        LET st == fin.result.scoreBreakdown.static
            count(tag, severities) ==
                Cardinality({i \in 1..Len(fin.annotations) :
                                /\ LayerTag(fin.annotations[i].layer) = tag
                                /\ fin.annotations[i].severity \in severities})
            all == {"critical", "error", "warning", "info"}
            P == 15 * count("L5", all) + 20 * count("L4", all)
                   + 5 * count("L2", {"error"}) + 2 * count("L2", {"warning"})
            \* 10 * ScoreDen * (B / 100), in tenths of 1/ScoreDen
            B == IF fin.runtimeScore = Null
                 THEN 6 * st.completeness + 3 * st.structure + 1 * st.survivability
                 ELSE 4 * st.completeness + 2 * st.structure + 1 * st.survivability
                        + 3 * fin.runtimeScore[1] * ScoreDen
            W == CASE fin.difficulty = "XS" -> 6 [] fin.difficulty = "S" -> 8
                   [] fin.difficulty = "M" -> 10 [] fin.difficulty = "L" -> 12
                   [] OTHER -> 14
            cap == getScoreCap(fin.result.failureLayer)
            \* (W*B - P) * ScoreDen, clamped to [0, cap * ScoreDen]
            clamped == Max(0, Min(cap * ScoreDen, W * B - P * ScoreDen))
        IN  fin.result.totalScore = MathRound(clamped, ScoreDen)

C16_TierGatedMean ==
    (fin.phase \in {"static", "staticAgain"} /\ ~fin.threw) =>
        LET f == fin.facts
            checks == CASE fin.size = "XS" -> <<f.fileReference>>
                        [] fin.size = "S" -> <<f.fileReference, f.scriptBinding>>
                        [] fin.size = "M" ->
                             <<f.fileReference, f.scriptBinding, f.apiSchemaLinkage>>
                        [] OTHER ->
                             <<f.fileReference, f.scriptBinding, f.apiSchemaLinkage,
                               f.routeConsistency>>
            sum == IF fin.size = "XS" THEN f.fileReference.value
                   ELSE IF fin.size = "S" THEN f.fileReference.value + f.scriptBinding.value
                   ELSE IF fin.size = "M"
                        THEN f.fileReference.value + f.scriptBinding.value
                               + f.apiSchemaLinkage.value
                   ELSE f.fileReference.value + f.scriptBinding.value
                          + f.apiSchemaLinkage.value + f.routeConsistency.value
        IN  /\ enabledComponents(fin.size, f) = checks
            \* values are in halves, scores in units of 1/ScoreDen
            /\ fin.result[1].connectivity * 2 * Len(checks) = sum * ScoreDen

\* tier M: file reference 1, script binding 0, schema linkage 0.5 and
\* consistent routes give (1 + 0 + 0.5) / 3 = 0.5; the routes do not count
C16_Witness ==
    /\ fin.phase = "static"
    /\ fin.size = "M"
    /\ fin.facts.fileReference.value = 2
    /\ fin.facts.scriptBinding.value = 0
    /\ fin.facts.apiSchemaLinkage.value = 1
    /\ fin.facts.routeConsistency.value = 2
    /\ fin.result # Null
    /\ fin.result[1].connectivity = ScoreDen \div 2

\* C17: the number of connectivity sub-checks enabled by evaluateStatic is 1
\* for tier 1, 2 for tiers 2 and 3, 3 for tier 4 and 4 for tier 5, and is the
\* same on every evaluation of the same input.
C17_EnabledCount ==
    /\ fin.phase \in {"static", "staticAgain"} =>
          Len(enabledComponents(fin.size, fin.facts)) =
             CASE fin.size = "XS" -> 1 [] fin.size \in {"S", "M"} -> 2
               [] fin.size = "L" -> 3 [] OTHER -> 4
    /\ fin.phase = "staticAgain" => fin.again = fin.result

\* C17 (amended): the number of enabled connectivity sub-checks is 1 for tier
\* 1, 2 for tier 2, 3 for tier 3 and 4 for tiers 4 and 5, and is the same on
\* every evaluation of the same input.
C17_EnabledCountPerTier ==
    /\ fin.phase \in {"static", "staticAgain"} =>
          Len(enabledComponents(fin.size, fin.facts)) =
             CASE fin.size = "XS" -> 1 [] fin.size = "S" -> 2
               [] fin.size = "M" -> 3 [] OTHER -> 4
    /\ fin.phase = "staticAgain" => fin.again = fin.result

\* a tier-4 bundle evaluated twice: four checks both times
C17_Witness ==
    /\ fin.phase = "staticAgain"
    /\ fin.size = "L"
    /\ fin.result # Null
    /\ fin.again = fin.result
    /\ Len(enabledComponents(fin.size, fin.facts)) = 4

\* C19: any internal failure of the lint collaborator (ESLint construction
\* or lintFiles throwing, or a failure while handing files to it) never
\* makes evaluateStatic fail and never changes completeness, structure,
\* connectivity or survivability: lint is treated as unavailable, with zero
\* lint errors and no L2 annotation emitted.
C19_LintFailureIsSilent ==
    (fin.phase \in {"static", "staticAgain"} /\ fin.facts.lint.kind # "ok") =>
        /\ ~fin.threw
        /\ fin.result # Null
        /\ LET r == fin.result[1]
               clean == evaluateStatic(fin.size, [fin.facts EXCEPT !.lint = Lint("ok", 0)])
           IN  /\ r.completeness = clean.completeness
               /\ r.structure = clean.structure
               /\ r.connectivity = clean.connectivity
               /\ r.survivability = clean.survivability
               /\ r.lintErrorCount = 0
               /\ \A i \in 1..Len(r.failureAnnotations) :
                     LayerTag(r.failureAnnotations[i].layer) # "L2"

\* C18: evaluateRuntime returns score 0 exactly when the sandbox result has
\* success = false or at least one fatal browser error was recorded (a page
\* error, a console error, or a network failure on a code/markup resource),
\* and returns 1 otherwise; a network failure on another resource, an
\* error of unrecognized type, an external-access annotation or a manifest
\* mismatch never by itself makes the score 0.
C18_RuntimeScoreRule ==
    fin.phase = "runtime" =>
        LET errs == OrEmpty(fin.sandboxResult.browserErrors)
            onCodeOrMarkup(err) == err.url.ext \in {"js", "html"}
            fatal(err) == \/ err.type = "pageerror"
                          \/ err.type = "console.error"
                          \/ err.type = "network" /\ onCodeOrMarkup(err)
            zero == \/ ~fin.sandboxResult.success
                    \/ \E i \in 1..Len(errs) : fatal(errs[i])
        IN  fin.result.score = (IF zero THEN 0 ELSE 1)

\* C20: for a tier-1 (XS) task whose only required file is index.html,
\* present and non-empty in the content map, runTask yields completeness 1,
\* survivability 1, connectivity 1, a skipped runtime, no failure layer and
\* totalScore = 100 x 0.6 = 60.
C20_ScenarioA ==
    (/\ result.status = "returned"
     /\ task.size = "XS"
     /\ "static" \in rt.ran
     /\ rt.facts[1].required = {"index.html"}
     /\ "index.html" \in rt.facts[1].files
     /\ rt.facts[1].requiredNonEmpty)
    => /\ ReturnedValue.staticScore.completeness = ScoreDen
       /\ ReturnedValue.staticScore.survivability = ScoreDen
       /\ ReturnedValue.staticScore.connectivity = ScoreDen
       /\ ReturnedValue.runtimeScore = Null
       /\ ReturnedValue.finalResult.failureLayer = Null
       /\ ReturnedValue.finalResult.totalScore = 60

\* C20 (amended): the same when index.html is the only generated file and
\* is well-formed markup (it contains '<!DOCTYPE', '<html' and '<body').
C20_ScenarioAWellFormed ==
    (/\ result.status = "returned"
     /\ task.size = "XS"
     /\ "static" \in rt.ran
     /\ rt.facts[1].required = {"index.html"}
     /\ rt.facts[1].files = {"index.html"}
     /\ rt.facts[1].requiredNonEmpty
     /\ rt.facts[1].validCount = 1)
    => /\ ReturnedValue.staticScore.completeness = ScoreDen
       /\ ReturnedValue.staticScore.structure = ScoreDen
       /\ ReturnedValue.staticScore.survivability = ScoreDen
       /\ ReturnedValue.staticScore.connectivity = ScoreDen
       /\ ReturnedValue.runtimeScore = Null
       /\ ReturnedValue.finalResult.failureLayer = Null
       /\ ReturnedValue.finalResult.totalScore = 60

\* runTask has returned 60 for a well-formed index.html that links nothing
C20_Witness ==
    /\ result.status = "returned"
    /\ task.size = "XS"
    /\ "static" \in rt.ran
    /\ "runtimeEval" \notin rt.ran
    /\ rt.facts[1].required = {"index.html"}
    /\ rt.facts[1].files = {"index.html"}
    /\ rt.facts[1].requiredNonEmpty
    /\ rt.facts[1].validCount = 1
    /\ rt.facts[1].fileReference.value = 2
    /\ ReturnedValue.finalResult.totalScore = 60

\* C21: whenever a required file is missing from the content map,
\* evaluateStatic gives completeness 0.5 and survivability 0, and at every
\* tier the final score runTask returns is strictly less than 60, the score
\* of the fully-present tier-1 scenario.
C21_MissingRequiredFile ==
    (/\ result.status = "returned"
     /\ "static" \in rt.ran
     /\ ~(rt.facts[1].required \subseteq rt.facts[1].files))
    => /\ ReturnedValue.staticScore.completeness = ScoreDen \div 2
       /\ ReturnedValue.staticScore.survivability = 0
       /\ ReturnedValue.finalResult.totalScore < 60

\* tier XL, app.js required but absent, the rest well-formed and the page
\* loading cleanly: the L4 cap of 50 is what keeps the score below 60
C21_Witness ==
    /\ result.status = "returned"
    /\ task.size = "XL"
    /\ "static" \in rt.ran
    /\ "app.js" \in rt.facts[1].required
    /\ "app.js" \notin rt.facts[1].files
    /\ ReturnedValue.staticScore.structure = ScoreDen
    /\ ReturnedValue.runtimeScore = Some(1)
    /\ ReturnedValue.finalResult.failureLayer = Some("L4/Parse")
    /\ ReturnedValue.finalResult.totalScore = 50

\* C22: under the filesystem guard of the process runtime, every
\* intercepted read, write, readdir or mkdir call whose path resolves
\* outside the scratch root (the child's working directory) is rejected with
\* 'Access Denied' before the real filesystem is touched, and a call whose
\* path resolves inside the scratch root is passed through.
C22_GuardConfinesToScratchRoot ==
    fin.phase = "fs" =>
        LET resolved == pathResolve(fin.arg.path)
            inside == /\ Len(resolved) >= Len(CWD)
                      /\ SubSeq(resolved, 1, Len(CWD)) = CWD
        IN  IF inside
            THEN fin.outcome = "original" /\ fin.touched = Some(resolved)
            ELSE fin.outcome = "Access Denied" /\ fin.touched = Null

\* the sums over the perTask entries: in the program's arithmetic, and as
\* integers with the weights in tenths
RECURSIVE SumScoreWeight(_)
SumScoreWeight(perTask) ==
    IF perTask = << >> THEN DoubleZero
    ELSE LET t == perTask[Len(perTask)]
         IN  doubleAdd(SumScoreWeight(SubSeq(perTask, 1, Len(perTask) - 1)),
                       doubleMul(doubleOf(t.score, 1), t.weight))

RECURSIVE SumWeight(_)
SumWeight(perTask) ==
    IF perTask = << >> THEN DoubleZero
    ELSE doubleAdd(SumWeight(SubSeq(perTask, 1, Len(perTask) - 1)),
                   perTask[Len(perTask)].weight)

RECURSIVE SumTenths(_, _)
SumTenths(perTask, withScore) ==
    IF perTask = << >> THEN 0
    ELSE (IF withScore THEN Head(perTask).score ELSE 1)
            * DIFFICULTY_WEIGHTS[Head(perTask).size]
         + SumTenths(Tail(perTask), withScore)

C24_RegistryLookupIsStable ==
    /\ fin.phase \in {"looked", "evaluated", "lookedAgain"} =>
         IF fin.ruleId \in DOMAIN FAILURE_REGISTRY
         THEN /\ ~fin.first.threw
              /\ fin.first.def = Some(FAILURE_REGISTRY[fin.ruleId])
              /\ fin.first.def[1].ruleId = fin.ruleId
         ELSE fin.first.threw
    /\ fin.phase = "lookedAgain" => fin.again = fin.first

C26_ScriptBindingScale ==
    (fin.phase = "binding" /\ fin.hasJs /\ fin.hasHtml) =>
        /\ fin.result.value = 2 => fin.jsSelectors \subseteq fin.htmlDeclared
        /\ (/\ fin.jsSelectors # {}
            /\ fin.htmlDeclared # {}
            /\ ~(fin.jsSelectors \subseteq fin.htmlDeclared)) => fin.result.value = 1
        /\ (fin.jsSelectors = {} \/ fin.htmlDeclared = {}) => fin.result.value = 0

\* C27: with markup present, evaluateFileReference returns 1 when the markup
\* mentions every required non-markup file (vacuously when there is none);
\* whenever it returns 0.5 every annotation it emits has severity warning; it
\* emits an error-severity annotation only when it returns 0.
C27_FileReferenceSeverity ==
    fin.phase = "reference" =>
        /\ (fin.hasHtml /\ fin.mentioned = fin.targets) =>
              fin.result = Check(2, << >>)
        /\ fin.result.value = 1 =>
              /\ Len(fin.result.notes) = 1
              /\ fin.result.notes[1].severity = "warning"
        /\ (\E i \in 1..Len(fin.result.notes) : fin.result.notes[i].severity = "error")
              => fin.result.value = 0

\* C28 (as stated): evaluateRouteConsistency returns 0 when there is no routes
\* file, 1 when a routes file exists and all its route values are non-empty
\* and unique, and 0.5 with an annotation naming the offending condition in
\* every other case in which a routes file exists.
C28_RouteConsistencyAsStated ==
    fin.phase = "route" =>
        IF ~fin.routesFile.exists THEN fin.result.value = 0
        ELSE IF /\ fin.routesFile.kind = "object"
                /\ nonEmpty(fin.routesFile.values)
                /\ ~hasDuplicates(fin.routesFile.values)
             THEN fin.result.value = 2
        ELSE fin.result.value = 1 /\ fin.result.issues # {}

\* C28: evaluateRouteConsistency returns 0 when there is no routes file or
\* the file is blank, not JSON, or holds no route (with a parse error or an
\* "empty" warning for the latter two); 1 when it holds at least one route and
\* all route values are non-empty and unique; 0.5 with a warning naming the
\* offending condition (empty entries, duplicate targets) otherwise.
C28_RouteConsistency ==
    fin.phase = "route" =>
        LET file == fin.routesFile
            noRoute == \/ ~file.exists
                       \/ file.kind # "object"
                       \/ Len(file.values) = 0
        IN  /\ noRoute => fin.result.value = 0 /\ fin.result.issues = {}
            /\ (~file.exists \/ file.kind = "blank") => fin.result.notes = << >>
            /\ (file.exists /\ file.kind = "invalid") =>
                  fin.result.notes = <<makeFail("parse/json")>>
            /\ (~noRoute /\ nonEmpty(file.values)
                  /\ Cardinality({file.values[i] : i \in 1..Len(file.values)})
                        = Len(file.values)) =>
                  fin.result = RouteCheck(2, << >>, {})
            /\ (~noRoute /\ ~nonEmpty(file.values)) =>
                  /\ fin.result.value = 1
                  /\ "Empty entries" \in fin.result.issues
            /\ (~noRoute /\ Cardinality({file.values[i] : i \in 1..Len(file.values)})
                              < Len(file.values)) =>
                  /\ fin.result.value = 1
                  /\ "Duplicate targets" \in fin.result.issues
                  /\ fin.result.notes = <<Downgraded("connectivity/route")>>

C28_Witness ==
    /\ fin.phase = "route"
    /\ fin.routesFile = RouteFile(TRUE, "object", <<"/a", "/a">>)
    /\ fin.result = RouteCheck(1, <<Downgraded("connectivity/route")>>,
                               {"Duplicate targets"})

\* C29: a build or process-runtime step whose timeout fired is reported as a
\* failure (success = false), and after a build that timed out or exited
\* non-zero runInSandbox returns the failure at once, the runtime entry
\* never being started.
RuntimeStarted ==
    \E i \in 1..Len(sb.logs) :
        sb.logs[i] \in {"browser-runtime", "node-runtime", "unknown-runtime"}

BuildTimedOut ==
    \E i \in 1..Len(sb.logs) :
        /\ sb.logs[i] = "timeout"
        /\ \A j \in 1..i : sb.logs[j] # "node-runtime"

C29_TimeoutIsFailure ==
    /\ (/\ sb.promise = "resolved"
        /\ \E i \in 1..Len(sb.result[1].logs) : sb.result[1].logs[i] = "timeout")
          => ~sb.result[1].success
    /\ BuildTimedOut =>
          /\ ~RuntimeStarted
          /\ sb.pc \in {"buildKilled", "end"}

\* C30: a runTask invocation that returns without an infrastructure timeout
\* has added exactly one entry (its task id, tier, final totalScore and tier
\* weight) to the benchmark accumulator, on whichever path it returns; an
\* invocation whose deadline race timed out, or that has not returned, has
\* added none.
C30_OneEntryPerReturn ==
    IF result.status = "returned" /\ ~result.value[1].infrastructureTimeout
    THEN /\ benchmarkAccumulator.perTask =
              <<[taskId |-> TaskId, size |-> task.size,
                 score |-> result.value[1].finalResult.totalScore,
                 weight |-> doubleOf(DIFFICULTY_WEIGHTS[task.size], 10)]>>
         /\ benchmarkAccumulator =
              addToBenchmark(EmptyAccumulator, TaskId, task.size,
                             result.value[1].finalResult.totalScore, Null)
    ELSE benchmarkAccumulator = EmptyAccumulator

C30_Witness ==
    /\ result.status = "returned"
    /\ ~result.value[1].infrastructureTimeout
    /\ "static" \in rt.ran
    /\ result.value[1].finalResult.totalScore > 0
    /\ Len(benchmarkAccumulator.perTask) = 1
    /\ benchmarkAccumulator.perTask[1].score = result.value[1].finalResult.totalScore

=============================================================================
